---- MODULE Spec2Model ----
(***************************************************************************)
(* A model of the db-optimizer services that keep state between requests: *)
(*   - CacheService   (src/app/services/cache_service.py)                  *)
(*   - SchemaService  (src/app/services/schema_service.py)                 *)
(* and of the analyses they serve:                                         *)
(*   - QueryAnalyzer    (src/app/services/query_analyzer.py)               *)
(*   - DatabaseAnalyzer (src/app/services/db_analyzer.py)                  *)
(*   - QueryOptimizer   (src/app/services/optimizer.py)                    *)
(*   - QueryGenerator   (src/app/services/query_generator.py)              *)
(* Requests run on the server's worker threads (the endpoints are plain    *)
(* `def` functions), so every method is modelled per thread, one action    *)
(* per statement group that reads or writes shared state.                  *)
(***************************************************************************)
EXTENDS Integers, Sequences, FiniteSets, TLC

VARIABLES
    now,        \* time.time(): the wall clock, in seconds
    ticks,      \* how many times the clock has advanced (bounds the model)
    cache,      \* CacheService._cache: dict key -> value
    meta,       \* CacheService._cache_metadata: dict key -> metadata dict
    lock,       \* CacheService._lock: the thread that holds it, or NoThread
    pc,         \* per thread: where it stands inside the method it is running
    loc,        \* per thread: the local variables of the method it is running
    ret,        \* per thread: the last call it completed and what it returned
    lastSet,    \* history: per key, the last set() that returned and that no
                \* invalidation has removed since
    lastEffect, \* history: the last change a completed call made to the cache
    schema_cache,     \* per service: SchemaService._schema_cache, None or a context
    cache_timestamp,  \* per service: SchemaService._cache_timestamp, None or a time
    db,               \* the generation of the live database
    caching,    \* the inspector of the build keeps its reflection results
                \* (Inspector.info_cache of SQLAlchemy)
    info_cache, \* per service: SchemaService.inspector.info_cache, the
                \* generation that answered each inspector call it keeps
    spc,        \* per thread: where it stands inside a SchemaService method
    on,         \* per thread: the service of that method
    table_call, \* per thread: the get_table_info call it is running
    context,    \* per thread: the context get_database_context is building
    sret,       \* per thread: what its last SchemaService call returned
    refreshGen,     \* history: db when the last refresh_cache("all") returned
    refreshPending, \* history, per service: none of its get_database_context
                    \* calls has started since then
    nextAfter,  \* per thread, history: its call is the first that started
                \* after a refresh_cache("all") returned
    live,       \* the live database the inspector reads, at each generation
    query,      \* the query of the last analyze_query call
    analysis,   \* what the last analyze_query call returned or raised
    sqlglot_exp,   \* the classes the installed module sqlglot.exp defines
    table_stats,   \* the statistics of the table of the last partitioning call
    partitioning,  \* what the last analyze_table_for_partitioning call returned
    opc,        \* per thread: where it stands inside optimize
    request,    \* per thread: its last request to optimize or execute_query
                \* and what the calls of optimize have answered so far
    response,   \* per thread: what that call returned or raised
    executed    \* the submitted statements the database has executed, each
                \* with the method that sent it

cvars == <<cache, meta, lock, pc, loc, ret, lastSet, lastEffect>>
svars == <<schema_cache, cache_timestamp, db, spc, on, context, sret,
           refreshGen, refreshPending, nextAfter, caching, info_cache, table_call>>
ovars == <<opc, request, response, executed>>
qvars == <<query, analysis, sqlglot_exp>>
pvars == <<table_stats, partitioning>>
avars == <<live, qvars, pvars, ovars>>
vars == <<now, ticks, cvars, svars, avars>>

----------------------------------------------------------------------------
(* Bounds of the model *)

MaxTicks == 2

Threads  == {"t1", "t2"}
NoThread == "nobody"

\* Python's None
None == "None"

\* Cache keys are strings; invalidate_by_pattern looks inside them, so a key is
\* modelled as its sequence of characters.
Keys     == { <<"a">>, <<"a", "b">> }

\* The key the requests of the cache specifications work on, and the patterns
\* they invalidate by: the empty string, one that occurs in it, one that does not
OneKey == { <<"a">> }
Patterns == { <<>>, <<"a">>, <<"b">> }

\* Cached values: a string, an empty dict, and None
Values == {"v1", "{}", None}

\* The clock advances by one second, by the short TTL and by the long TTL
TickSteps == {1, 300, 360000}

----------------------------------------------------------------------------
(* CacheService constants *)

\* self._cache_levels
CacheLevels == {"schema", "relationships", "statistics", "sample_data", "full_context"}

TTL_schema        == 360000
TTL_relationships == 360000
TTL_statistics    == 300
TTL_sample_data   == 360000
TTL_full_context  == 360000
TTL_default       == 300

cache_levels ==
    [l \in CacheLevels |->
        CASE l = "schema"        -> TTL_schema
          [] l = "relationships" -> TTL_relationships
          [] l = "statistics"    -> TTL_statistics
          [] l = "sample_data"   -> TTL_sample_data
          [] l = "full_context"  -> TTL_full_context]

\* self._cache_levels.get(cache_level, 300)
LevelTTL(level) ==
    IF level \in CacheLevels THEN cache_levels[level] ELSE TTL_default

\* The cache_level arguments the model passes: the default level, the level
\* with the short TTL, and a name that is no cache level.
SetLevels == {"full_context", "statistics"}
GetLevels == SetLevels \cup {"bogus"}

\* The key the decorator derives when no key_generator is given: the md5 digest
\* of the function name joined with hash(str(args)). The digest is a fixed
\* function of (name, args) and does not read the cache level; it is modelled
\* as a table, one digest per (name, args) of the model.
WrappedNames == {"f"}
WrappedArgs  == { <<>>, <<1>> }
Wrapped      == [name : WrappedNames, cache_level : SetLevels]

Digest(key_parts) ==
    CASE key_parts = <<"f">>         -> <<"a">>
      [] key_parts = <<"f", <<1>>>>  -> <<"a", "b">>

CacheKey(f, args) ==
    Digest(IF args # <<>> THEN <<f.name, args>> ELSE <<f.name>>)

----------------------------------------------------------------------------
(* Python dict operations *)

EmptyDict == [x \in {} |-> None]

\* Fault variant of DictSet: d.setdefault(k, v), which keeps an existing entry
DictSetDefault(d, k, v) ==
    [x \in DOMAIN d \cup {k} |-> IF x = k /\ k \notin DOMAIN d THEN v ELSE d[x]]

DictSet(d, k, v) == [x \in DOMAIN d \cup {k} |-> IF x = k THEN v ELSE d[x]]

\* d.pop(k, None)
DictPop(d, k) == [x \in DOMAIN d \ {k} |-> d[x]]

\* `pattern in key` on strings
IsSubstring(pattern, key) ==
    \E i \in 0..(Len(key) - Len(pattern)) :
        SubSeq(key, i + 1, i + Len(pattern)) = pattern

\* len(json.dumps(v))
JsonLen(v) ==
    CASE v = "v1" -> 4
      [] v = "{}" -> 2
      [] v = None -> 4

RECURSIVE SumLen(_)
SumLen(S) ==
    IF S = {} THEN 0
    ELSE LET k == CHOOSE x \in S : TRUE IN JsonLen(cache[k]) + SumLen(S \ {k})

----------------------------------------------------------------------------
(* Records of the model *)

NoLoc == [op |-> "none", key |-> <<>>, level |-> "", val |-> None]

NoStats == [total_entries |-> -1, total_size_bytes |-> -1, entries_by_level |-> EmptyDict]

NoCall == [op |-> "none", key |-> <<>>, level |-> "", val |-> None, stats |-> NoStats]

Raised == "raised"

NoSet == [val |-> None, at |-> -1, level |-> "", by |-> "none"]

NoEffect == [what |-> "none", other_level |-> FALSE]

Returned(op, key, level, val) ==
    [op |-> op, key |-> key, level |-> level, val |-> val, stats |-> NoStats]

----------------------------------------------------------------------------
(* CacheService *)

\* A value json.dumps cannot serialize, such as a set or an object
Unserializable == "obj"

\* The thread is about to enter `with self._lock:`, whether it has just been
\* called or has been waiting for the lock
AtEntry(t) == pc[t] \in {"idle", "blocked"}

\* Fault variant of LockFree: the lock is not waited for
LockNotChecked == TRUE

\* `with self._lock:` can be entered
LockFree == lock = NoThread

\* metadata = self._cache_metadata.get(key, {}); metadata.get('timestamp', 0)
Timestamp(key) == IF key \in DOMAIN meta THEN meta[key].timestamp ELSE 0

\* Fault variant of Expired: >= in place of >
ExpiredAtTTL(key, cache_level) == now - Timestamp(key) >= LevelTTL(cache_level)

\* Fault variant of Expired: an entry stored under another level counts as expired
ExpiredOrOtherLevel(key, cache_level) ==
    \/ now - Timestamp(key) > LevelTTL(cache_level)
    \/ key \in DOMAIN meta /\ meta[key].cache_level # cache_level

\* time.time() - metadata.get('timestamp', 0) > ttl
Expired(key, cache_level) == now - Timestamp(key) > LevelTTL(cache_level)

\* Where a thread goes when get() has returned v: the decorator's wrapper
\* runs the function when the value is None, every other caller is done.
AfterGet(op, v) == IF op = "wrapper" /\ v = None THEN "w_compute" ELSE "idle"

\* get(), lines 28-36 and 40: take the lock, test membership and age. A miss
\* and a hit return at once and release the lock; an expired entry leaves the
\* thread inside the lock, before self._invalidate(key).
GetCheck(t, op, key, cache_level) ==
    /\ AtEntry(t)
    /\ LockFree
    /\ IF key \notin DOMAIN cache
       THEN /\ pc' = [pc EXCEPT ![t] = AfterGet(op, None)]
            /\ loc' = [loc EXCEPT ![t] =
                          IF op = "wrapper"
                          THEN [op |-> op, key |-> key, level |-> cache_level, val |-> None]
                          ELSE NoLoc]
            /\ ret' = [ret EXCEPT ![t] = IF op = "wrapper" THEN @ ELSE Returned(op, key, cache_level, None)]
            /\ UNCHANGED lock
       ELSE IF Expired(key, cache_level)
       THEN /\ pc' = [pc EXCEPT ![t] = "get_evict"]
            /\ loc' = [loc EXCEPT ![t] =
                          [op |-> op, key |-> key, level |-> cache_level, val |-> None]]
            /\ lock' = t
            /\ UNCHANGED ret
       ELSE /\ pc' = [pc EXCEPT ![t] = AfterGet(op, cache[key])]
            /\ loc' = [loc EXCEPT ![t] =
                          IF AfterGet(op, cache[key]) = "idle" THEN NoLoc
                          ELSE [op |-> op, key |-> key, level |-> cache_level, val |-> None]]
            /\ ret' = [ret EXCEPT ![t] =
                          IF AfterGet(op, cache[key]) = "idle"
                          THEN Returned(op, key, cache_level, cache[key]) ELSE @]
            /\ UNCHANGED lock
    /\ UNCHANGED <<now, ticks, cache, meta, lastSet, lastEffect>>
    /\ UNCHANGED <<svars, avars>>

\* get(key, cache_level) called directly
Get(t, key, cache_level) == GetCheck(t, "get", key, cache_level)

\* Fault variant of GetEvict: _invalidate takes the non-reentrant lock itself
GetEvictTakesLock(t) ==
    /\ pc[t] = "get_evict"
    /\ LockFree
    /\ cache' = DictPop(cache, loc[t].key)
    /\ meta' = DictPop(meta, loc[t].key)
    /\ lock' = NoThread
    /\ pc' = [pc EXCEPT ![t] = "idle"]
    /\ loc' = [loc EXCEPT ![t] = NoLoc]
    /\ ret' = [ret EXCEPT ![t] = Returned("get", loc[t].key, loc[t].level, None)]
    /\ lastSet' = [lastSet EXCEPT ![loc[t].key] = NoSet]
    /\ lastEffect' = [what |-> "evicted", other_level |-> FALSE]
    /\ UNCHANGED <<now, ticks>>
    /\ UNCHANGED <<svars, avars>>

\* get(), lines 37-38: self._invalidate(key); return None; the lock is released
GetEvict(t) ==
    /\ pc[t] = "get_evict"
    /\ cache' = DictPop(cache, loc[t].key)
    /\ meta' = DictPop(meta, loc[t].key)
    /\ lock' = NoThread
    /\ pc' = [pc EXCEPT ![t] = AfterGet(loc[t].op, None)]
    /\ loc' = [loc EXCEPT ![t] = IF loc[t].op = "wrapper" THEN @ ELSE NoLoc]
    /\ ret' = [ret EXCEPT ![t] =
                  IF loc[t].op = "wrapper" THEN @
                  ELSE Returned("get", loc[t].key, loc[t].level, None)]
    /\ lastSet' = [lastSet EXCEPT ![loc[t].key] = NoSet]
    /\ lastEffect' = [what |-> "evicted", other_level |-> FALSE]
    /\ UNCHANGED <<now, ticks>>
    /\ UNCHANGED <<svars, avars>>

\* Fault variant of SetValue: set() writes without taking the lock
SetValueNoLock(t, op, key, value, cache_level) ==
    /\ cache' = DictSet(cache, key, value)
    /\ pc' = [pc EXCEPT ![t] = "set_meta"]
    /\ loc' = [loc EXCEPT ![t] =
                  [op |-> op, key |-> key, level |-> cache_level, val |-> value]]
    /\ UNCHANGED <<now, ticks, lock, meta, ret, lastSet, lastEffect>>
    /\ UNCHANGED <<svars, avars>>

\* set(), lines 44-45: take the lock; self._cache[key] = value
SetValue(t, op, key, value, cache_level) ==
    /\ LockFree
    /\ lock' = t
    /\ cache' = DictSet(cache, key, value)
    /\ pc' = [pc EXCEPT ![t] = "set_meta"]
    /\ loc' = [loc EXCEPT ![t] =
                  [op |-> op, key |-> key, level |-> cache_level, val |-> value]]
    /\ UNCHANGED <<now, ticks, meta, ret, lastSet, lastEffect>>
    /\ UNCHANGED <<svars, avars>>

\* set(key, value, cache_level) called directly
Set(t, key, value, cache_level) ==
    /\ AtEntry(t)
    /\ SetValue(t, "set", key, value, cache_level)

\* History: what the entry a set() replaces was when the set() wrote over it
Previous(key, cache_level) ==
    IF key \notin DOMAIN meta THEN [what |-> "set_absent", other_level |-> FALSE]
    ELSE [what |-> IF now - meta[key].timestamp > LevelTTL(meta[key].cache_level)
                   THEN "set_expired" ELSE "set_fresh",
          other_level |-> meta[key].cache_level # cache_level]

\* The metadata dict set() stores (created_at is the same clock reading as text)
NewMetadata(cache_level) ==
    [timestamp |-> now, cache_level |-> cache_level, created_at |-> now]

\* set(), lines 46-50: self._cache_metadata[key] = {...}; the lock is released.
\* set() returns None; the wrapper then returns the function's result.
SetMeta(t) ==
    /\ pc[t] = "set_meta"
    /\ meta' = DictSet(meta, loc[t].key, NewMetadata(loc[t].level))
    /\ lock' = NoThread
    /\ pc' = [pc EXCEPT ![t] = "idle"]
    /\ loc' = [loc EXCEPT ![t] = NoLoc]
    /\ ret' = [ret EXCEPT ![t] =
                  Returned(loc[t].op, loc[t].key, loc[t].level,
                           IF loc[t].op = "wrapper" THEN loc[t].val ELSE None)]
    /\ lastSet' = [lastSet EXCEPT ![loc[t].key] =
                      [val |-> loc[t].val, at |-> now, level |-> loc[t].level,
                       by |-> loc[t].op]]
    /\ lastEffect' = Previous(loc[t].key, loc[t].level)
    /\ UNCHANGED <<now, ticks, cache>>
    /\ UNCHANGED <<svars, avars>>

\* invalidate_all(), lines 59-61
InvalidateAll(t) ==
    /\ AtEntry(t)
    /\ LockFree
    /\ cache' = EmptyDict
    /\ meta' = EmptyDict
    /\ ret' = [ret EXCEPT ![t] = Returned("invalidate_all", <<>>, "", None)]
    /\ lastSet' = [k \in Keys |-> NoSet]
    /\ lastEffect' = IF DOMAIN cache = {} THEN lastEffect
                     ELSE [what |-> "invalidated", other_level |-> FALSE]
    /\ pc' = [pc EXCEPT ![t] = "idle"]
    /\ loc' = [loc EXCEPT ![t] = NoLoc]
    /\ UNCHANGED <<now, ticks, lock>>
    /\ UNCHANGED <<svars, avars>>

\* keys_to_remove = [key for key in self._cache.keys() if pattern in key]
KeysToRemove(pattern) == {k \in DOMAIN cache : IsSubstring(pattern, k)}

\* Fault variant of InvalidateByPattern: the metadata of a removed key stays
InvalidateByPatternValuesOnly(t, pattern) ==
    /\ AtEntry(t)
    /\ LockFree
    /\ cache' = [k \in DOMAIN cache \ KeysToRemove(pattern) |-> cache[k]]
    /\ ret' = [ret EXCEPT ![t] = Returned("invalidate_by_pattern", <<>>, "", None)]
    /\ lastSet' = [k \in Keys |-> IF k \in KeysToRemove(pattern) THEN NoSet ELSE lastSet[k]]
    /\ lastEffect' = IF KeysToRemove(pattern) = {} THEN lastEffect
                     ELSE [what |-> "invalidated", other_level |-> FALSE]
    /\ pc' = [pc EXCEPT ![t] = "idle"]
    /\ loc' = [loc EXCEPT ![t] = NoLoc]
    /\ UNCHANGED <<now, ticks, lock, meta>>
    /\ UNCHANGED <<svars, avars>>

\* invalidate_by_pattern(), lines 65-68
InvalidateByPattern(t, pattern) ==
    /\ AtEntry(t)
    /\ LockFree
    /\ cache' = [k \in DOMAIN cache \ KeysToRemove(pattern) |-> cache[k]]
    /\ meta' = [k \in DOMAIN meta \ KeysToRemove(pattern) |-> meta[k]]
    /\ ret' = [ret EXCEPT ![t] = Returned("invalidate_by_pattern", <<>>, "", None)]
    /\ lastSet' = [k \in Keys |-> IF k \in KeysToRemove(pattern) THEN NoSet ELSE lastSet[k]]
    /\ lastEffect' = IF KeysToRemove(pattern) = {} THEN lastEffect
                     ELSE [what |-> "invalidated", other_level |-> FALSE]
    /\ pc' = [pc EXCEPT ![t] = "idle"]
    /\ loc' = [loc EXCEPT ![t] = NoLoc]
    /\ UNCHANGED <<now, ticks, lock>>
    /\ UNCHANGED <<svars, avars>>

\* get_cache_stats(), lines 73-82: what it computes from the two dicts
TotalEntries == Cardinality(DOMAIN cache)

TotalSizeBytes == SumLen(DOMAIN cache)

EntriesByLevel ==
    [l \in {meta[k].cache_level : k \in DOMAIN meta} |->
        Cardinality({k \in DOMAIN meta : meta[k].cache_level = l})]

CacheStats ==
    [total_entries |-> TotalEntries,
     total_size_bytes |-> TotalSizeBytes,
     entries_by_level |-> EntriesByLevel]

\* json.dumps(v) raises TypeError for a value that is not JSON serializable
JsonDumpsRaises(v) == v = Unserializable

\* get_cache_stats(), lines 72-89; when json.dumps raises at line 75 the
\* exception leaves the `with` block, which releases the lock
GetCacheStats(t) ==
    /\ AtEntry(t)
    /\ LockFree
    /\ ret' = [ret EXCEPT ![t] =
                  IF \E k \in DOMAIN cache : JsonDumpsRaises(cache[k])
                  THEN Returned("get_cache_stats", <<>>, "", Raised)
                  ELSE [op |-> "get_cache_stats", key |-> <<>>, level |-> "", val |-> None,
                        stats |-> CacheStats]]
    /\ pc' = [pc EXCEPT ![t] = "idle"]
    /\ loc' = [loc EXCEPT ![t] = NoLoc]
    /\ UNCHANGED <<now, ticks, cache, meta, lock, lastSet, lastEffect>>
    /\ UNCHANGED <<svars, avars>>

\* cache_decorator's wrapper, lines 97-111: derive the key, self.get(key, level),
\* return the cached result unless it is None
WrapperCall(t, f, args) ==
    GetCheck(t, "wrapper", CacheKey(f, args), f.cache_level)

\* wrapper, line 114: result = func(*args, **kwargs), any value
WrapperCompute(t, result) ==
    /\ pc[t] = "w_compute"
    /\ pc' = [pc EXCEPT ![t] = "w_set"]
    /\ loc' = [loc EXCEPT ![t].val = result]
    /\ UNCHANGED <<now, ticks, cache, meta, lock, ret, lastSet, lastEffect>>
    /\ UNCHANGED <<svars, avars>>

\* wrapper, line 114: func raises; the exception leaves the wrapper
WrapperRaise(t) ==
    /\ pc[t] = "w_compute"
    /\ pc' = [pc EXCEPT ![t] = "idle"]
    /\ ret' = [ret EXCEPT ![t] = Returned("wrapper", loc[t].key, loc[t].level, Raised)]
    /\ loc' = [loc EXCEPT ![t] = NoLoc]
    /\ UNCHANGED <<now, ticks, cache, meta, lock, lastSet, lastEffect>>
    /\ UNCHANGED <<svars, avars>>

\* wrapper, lines 115-116: self.set(cache_key, result, cache_level); return result
WrapperSet(t) ==
    /\ pc[t] = "w_set"
    /\ SetValue(t, "wrapper", loc[t].key, loc[t].val, loc[t].level)

\* time passes
Tick(d) ==
    /\ ticks < MaxTicks
    /\ now' = now + d
    /\ ticks' = ticks + 1
    /\ UNCHANGED <<cvars, svars, avars>>

----------------------------------------------------------------------------
(* SchemaService *)

\* settings.CACHE_TTL, which __init__ copies into self._cache_duration
CACHE_TTL == 300

\* How often the live database schema changes in the model
MaxDbGen == 1

\* The two SchemaService objects of the process: the one the endpoints use
\* (optimizer_api.py line 18) and the one QueryGenerator.__init__ creates for
\* itself (query_generator.py line 21)
ApiService == "schema_service"
GeneratorService == "query_generator.schema_service"
Services == {ApiService, GeneratorService}

\* The five collections of a context, in the order get_database_context builds
\* them. A collection is modelled by the generations of the database that
\* answered the calls of its helper, one per round trip, in their order.
Fields == <<"tables", "relationships", "sample_data", "constraints", "statistics">>

\* None, for self._schema_cache, and the blank context a build starts from
NoContext == [f \in {Fields[i] : i \in 1..Len(Fields)} |-> <<>>]

\* None, for self._cache_timestamp
NoTime == -1

\* No refresh_cache("all") has returned yet
NoRefresh == -1

\* No get_table_info call is under way
NoTableCall == [table_name |-> "", since |-> 0, reads |-> <<>>]

SReturned(kind, ctx) == [kind |-> kind, ctx |-> ctx]

\* The cache_type arguments of refresh_cache other than "all"
OtherCacheTypes == {"schema", "bogus"}

\* _is_cache_valid(), line 34
CacheIsSet(s) == schema_cache[s] # NoContext /\ cache_timestamp[s] # NoTime

\* Fault variant of AgeIsValid: the comparison is reversed
AgeIsValidReversed(s) == (now - cache_timestamp[s]) > CACHE_TTL

\* _is_cache_valid(), line 36
AgeIsValid(s) == (now - cache_timestamp[s]) < CACHE_TTL

\* get_database_context() of service s, lines 40-43, and _is_cache_valid(),
\* lines 34-35: the call starts and reads the two fields
CtxCheck(t, s) ==
    /\ spc[t] = "idle"
    /\ on' = [on EXCEPT ![t] = s]
    /\ IF CacheIsSet(s)
       THEN spc' = [spc EXCEPT ![t] = "ctx_age"]
       ELSE spc' = [spc EXCEPT ![t] = "build"]
    /\ nextAfter' = [nextAfter EXCEPT ![t] = refreshPending[s]]
    /\ refreshPending' = [refreshPending EXCEPT ![s] = FALSE]
    /\ sret' = [sret EXCEPT ![t] = SReturned("none", NoContext)]
    /\ UNCHANGED <<now, ticks, cvars, avars, schema_cache, cache_timestamp, db, context,
                   refreshGen, caching, info_cache, table_call>>

\* _is_cache_valid(), line 36: time.time() - self._cache_timestamp, which
\* raises TypeError when the timestamp has become None; the exception leaves
\* get_database_context, whose try block starts at line 47
CtxAge(t) ==
    /\ spc[t] = "ctx_age"
    /\ IF cache_timestamp[on[t]] = NoTime
       THEN /\ spc' = [spc EXCEPT ![t] = "idle"]
            /\ sret' = [sret EXCEPT ![t] = SReturned("raised", NoContext)]
            /\ nextAfter' = [nextAfter EXCEPT ![t] = FALSE]
       ELSE /\ spc' = [spc EXCEPT ![t] = IF AgeIsValid(on[t]) THEN "ctx_hit" ELSE "build"]
            /\ UNCHANGED <<sret, nextAfter>>
    /\ UNCHANGED <<now, ticks, cvars, avars, schema_cache, cache_timestamp, db, on, context,
                   refreshGen, refreshPending, caching, info_cache, table_call>>

\* get_database_context(), line 45: return self._schema_cache or {}
CtxHit(t) ==
    /\ spc[t] = "ctx_hit"
    /\ spc' = [spc EXCEPT ![t] = "idle"]
    /\ sret' = [sret EXCEPT ![t] =
                   IF schema_cache[on[t]] = NoContext
                   THEN SReturned("empty", NoContext)
                   ELSE SReturned("hit", schema_cache[on[t]])]
    /\ nextAfter' = [nextAfter EXCEPT ![t] = FALSE]
    /\ UNCHANGED <<now, ticks, cvars, avars, schema_cache, cache_timestamp, db, on, context,
                   refreshGen, refreshPending, caching, info_cache, table_call>>

\* get_database_context(), line 57: self._schema_cache = context
StoreCache(t) ==
    /\ spc[t] = "store_cache"
    /\ schema_cache' = [schema_cache EXCEPT ![on[t]] = context[t]]
    /\ spc' = [spc EXCEPT ![t] = "store_ts"]
    /\ UNCHANGED <<now, ticks, cvars, avars, cache_timestamp, db, on, context, sret,
                   refreshGen, refreshPending, nextAfter, caching, info_cache, table_call>>

\* get_database_context(), lines 58-62: self._cache_timestamp = time.time();
\* return context
StoreTimestamp(t) ==
    /\ spc[t] = "store_ts"
    /\ cache_timestamp' = [cache_timestamp EXCEPT ![on[t]] = now]
    /\ spc' = [spc EXCEPT ![t] = "idle"]
    /\ sret' = [sret EXCEPT ![t] = SReturned("built", context[t])]
    /\ context' = [context EXCEPT ![t] = NoContext]
    /\ nextAfter' = [nextAfter EXCEPT ![t] = FALSE]
    /\ UNCHANGED <<now, ticks, cvars, avars, schema_cache, db, on, refreshGen,
                   refreshPending, caching, info_cache, table_call>>

\* refresh_cache("all") of the endpoints' service, lines 91-92:
\* self._schema_cache = None
RefreshAll(t) ==
    /\ spc[t] = "idle"
    /\ on' = [on EXCEPT ![t] = ApiService]
    /\ schema_cache' = [schema_cache EXCEPT ![ApiService] = NoContext]
    /\ spc' = [spc EXCEPT ![t] = "refresh_ts"]
    /\ sret' = [sret EXCEPT ![t] = SReturned("none", NoContext)]
    /\ UNCHANGED <<now, ticks, cvars, avars, cache_timestamp, db, context,
                   refreshGen, refreshPending, nextAfter, caching, info_cache, table_call>>

\* refresh_cache("all"), lines 93-94: self._cache_timestamp = None;
\* return {"message": "All caches refreshed"}
RefreshTimestamp(t) ==
    /\ spc[t] = "refresh_ts"
    /\ cache_timestamp' = [cache_timestamp EXCEPT ![ApiService] = NoTime]
    /\ spc' = [spc EXCEPT ![t] = "idle"]
    /\ sret' = [sret EXCEPT ![t] = SReturned("refreshed", NoContext)]
    /\ refreshGen' = db
    /\ refreshPending' = [s \in Services |-> TRUE]
    /\ nextAfter' = [u \in Threads |-> FALSE]
    /\ UNCHANGED <<now, ticks, cvars, avars, schema_cache, db, on, context,
                   caching, info_cache, table_call>>

\* Fault variant of RefreshUnknown: the cache is cleared before the type is checked
RefreshUnknownClears(t, cache_type) ==
    /\ spc[t] = "idle"
    /\ cache_type # "all"
    /\ on' = [on EXCEPT ![t] = ApiService]
    /\ schema_cache' = [schema_cache EXCEPT ![ApiService] = NoContext]
    /\ cache_timestamp' = [cache_timestamp EXCEPT ![ApiService] = NoTime]
    /\ sret' = [sret EXCEPT ![t] = SReturned("error", NoContext)]
    /\ UNCHANGED <<now, ticks, cvars, avars, db, spc, context,
                   refreshGen, refreshPending, nextAfter, caching, info_cache, table_call>>

\* refresh_cache(cache_type), lines 95-96, for any other cache_type:
\* return {"error": "Unknown cache type: ..."}
RefreshUnknown(t, cache_type) ==
    /\ spc[t] = "idle"
    /\ cache_type # "all"
    /\ on' = [on EXCEPT ![t] = ApiService]
    /\ sret' = [sret EXCEPT ![t] = SReturned("error", NoContext)]
    /\ UNCHANGED <<now, ticks, cvars, avars, schema_cache, cache_timestamp, db, spc, context,
                   refreshGen, refreshPending, nextAfter, caching, info_cache, table_call>>

\* The /cache/refresh endpoint, optimizer_api.py lines 188-196: a result with a
\* non-empty "error" becomes HTTP 400, any other result is returned
RefreshStatus(result) == IF result.kind = "error" THEN 400 ELSE 200

----------------------------------------------------------------------------
(* SchemaService: the collections of a context *)

\* The elements of a list
Range(s) == {s[i] : i \in 1..Len(s)}

\* What inspector.get_table_names() can list, in its order
Listings == {<<>>, <<"a">>, <<"a", "b">>}

\* The foreign keys the tables can have, as inspector.get_foreign_keys(table)
\* reports them, in its order: a -> b, a -> a, b -> a. A table that is not
\* listed (another schema) can still be referred to.
CandidateFKs ==
    << [table |-> "a", constrained_columns |-> <<"b_id">>,
        referred_table |-> "b", referred_columns |-> <<"id">>],
       [table |-> "a", constrained_columns |-> <<"parent_id">>,
        referred_table |-> "a", referred_columns |-> <<"id">>],
       [table |-> "b", constrained_columns |-> <<"a_id">>,
        referred_table |-> "a", referred_columns |-> <<"id">>] >>

\* The calls get_database_context makes on the database, per table
TableCalls == {"get_columns", "get_indexes", "get_pk_constraint",
               "get_foreign_keys", "count", "sample"}

ListingCall == <<"get_table_names", "">>

Calls(names) == {ListingCall} \cup (TableCalls \X Range(names))

\* A live database: the tables it lists, their foreign keys, and the calls
\* that raise. Either no call raises, or one does, or every call does (the
\* database is unreachable).
LiveDbs ==
    {d \in [names : Listings, fks : SUBSET Range(CandidateFKs),
            failing : SUBSET Calls(<<"a", "b">>)] :
        /\ \A fk \in d.fks : fk.table \in Range(d.names)
        /\ \/ Cardinality(d.failing) <= 1 /\ d.failing \subseteq Calls(d.names)
           \/ d.failing = Calls(<<"a", "b">>)}

\* The database the service starts on
HealthyDb == [names |-> <<"a", "b">>, fks |-> {CandidateFKs[1]}, failing |-> {}]

\* The call raises: the database is set to fail it, or it names a table the
\* database does not have (NoSuchTableError, or the error of the query)
Fails(d, method, table) ==
    \/ <<method, table>> \in d.failing
    \/ table # "" /\ table \notin Range(d.names)

\* inspector.get_columns(table)
LiveColumns(table) ==
    IF table = "a" THEN <<"id", "b_id", "parent_id">> ELSE <<"id", "a_id">>

\* inspector.get_indexes(table)
LiveIndexes(table) ==
    IF table = "a"
    THEN << [name |-> "ix_a_b", column_names |-> <<"b_id">>, unique |-> FALSE] >>
    ELSE << >>

\* inspector.get_pk_constraint(table)["constrained_columns"]
LivePrimaryKey(table) == <<"id">>

\* inspector.get_foreign_keys(table)
LiveForeignKeys(d, table) ==
    SelectSeq(CandidateFKs, LAMBDA fk : fk \in d.fks /\ fk.table = table)

\* SELECT COUNT(*) FROM table
LiveRowCount(table) == IF table = "a" THEN 3 ELSE 5

\* SELECT * FROM table LIMIT 3
LiveSample(table) == IF table = "a" THEN << [id |-> 1], [id |-> 2] >> ELSE << [id |-> 7] >>

\* _get_table_columns(table_name)
GetTableColumns(d, table) ==
    IF Fails(d, "get_columns", table)
    THEN EmptyDict
    ELSE [c \in Range(LiveColumns(table)) |->
             [type |-> "INTEGER", nullable |-> (c # "id"), default |-> None,
              primary_key |-> FALSE]]

\* _get_table_indexes(table_name)
GetTableIndexes(d, table) ==
    IF Fails(d, "get_indexes", table)
    THEN <<>>
    ELSE [i \in 1..Len(LiveIndexes(table)) |->
             [name    |-> LiveIndexes(table)[i].name,
              columns |-> LiveIndexes(table)[i].column_names,
              unique  |-> LiveIndexes(table)[i].unique]]

\* _get_foreign_keys(table_name)
GetForeignKeys(d, table) ==
    IF Fails(d, "get_foreign_keys", table)
    THEN <<>>
    ELSE [i \in 1..Len(LiveForeignKeys(d, table)) |->
             [constrained_columns |-> LiveForeignKeys(d, table)[i].constrained_columns,
              referred_table      |-> LiveForeignKeys(d, table)[i].referred_table,
              referred_columns    |-> LiveForeignKeys(d, table)[i].referred_columns]]

\* _get_table_row_count(table_name)
GetTableRowCount(d, table) ==
    IF Fails(d, "count", table) THEN 0 ELSE LiveRowCount(table)

\* _get_table_description(table_name)
GetTableDescription(table) == <<"Table containing ", table, " data">>

\* The round trips of a helper are answered one by one, each by the database
\* as it is when the call arrives, or by the inspector's cache. `ans` is the
\* sequence of the databases that answered the calls made so far.

\* No call is left to make
Done == <<"done", "">>

\* The position of a table in a listing
Index(names, table) == CHOOSE k \in 1..Len(names) : names[k] = table

\* The helpers that list the tables and then make the same calls for each
\* table: `listings` calls of get_table_names, then `steps` for each table of
\* the last listing. The position of the call of a step for the k-th table:
Position(listings, steps, k, step) == listings + Len(steps) * (k - 1) + step

\* Such a helper has left its loop through its own `except Exception`: a
\* listing raised, or a call of `fatal`, which the loop makes unprotected
LoopAborted(ans, listings, steps, fatal) ==
    \/ \E i \in 1..listings : i <= Len(ans) /\ Fails(ans[i], "get_table_names", "")
    \/ /\ Len(ans) >= listings
       /\ \E k \in 1..Len(ans[listings].names), step \in 1..Len(steps) :
             /\ steps[step] \in fatal
             /\ Position(listings, steps, k, step) <= Len(ans)
             /\ Fails(ans[Position(listings, steps, k, step)], steps[step],
                      ans[listings].names[k])

\* The call such a helper makes next
LoopNext(ans, listings, steps, fatal) ==
    IF LoopAborted(ans, listings, steps, fatal) THEN Done
    ELSE IF Len(ans) < listings THEN ListingCall
    ELSE LET names == ans[listings].names
             made  == Len(ans) - listings
         IN  IF made >= Len(steps) * Len(names) THEN Done
             ELSE <<steps[(made % Len(steps)) + 1], names[(made \div Len(steps)) + 1]>>

\* _get_all_tables_info(), lines 118-137: the calls of the loop body, line by
\* line; get_pk_constraint is called in the loop itself, so its exception
\* reaches the method's own handler, which returns {}
AllTablesSteps ==
    <<"get_columns", "get_indexes", "get_pk_constraint", "get_foreign_keys", "count">>

AllTablesNext(ans) == LoopNext(ans, 1, AllTablesSteps, {"get_pk_constraint"})

GetAllTablesInfo(ans) ==
    IF LoopAborted(ans, 1, AllTablesSteps, {"get_pk_constraint"})
    THEN EmptyDict
    ELSE LET names == ans[1].names
             At(table, step) == ans[Position(1, AllTablesSteps, Index(names, table), step)]
         IN  [table \in Range(names) |->
                 [columns      |-> GetTableColumns(At(table, 1), table),
                  indexes      |-> GetTableIndexes(At(table, 2), table),
                  primary_keys |-> LivePrimaryKey(table),
                  foreign_keys |-> GetForeignKeys(At(table, 4), table),
                  row_count    |-> GetTableRowCount(At(table, 5), table),
                  description  |-> GetTableDescription(table)]]

\* _get_table_relationships(), lines 210-216: the outgoing edges of a table
References(d, table) ==
    [i \in 1..Len(LiveForeignKeys(d, table)) |->
        [type             |-> "references",
         table            |-> LiveForeignKeys(d, table)[i].referred_table,
         columns          |-> LiveForeignKeys(d, table)[i].constrained_columns,
         referred_columns |-> LiveForeignKeys(d, table)[i].referred_columns]]

\* _get_table_relationships(), lines 221-228: the edges one other table adds
ReferencedByOne(d, table, other_table) ==
    LET fks == SelectSeq(LiveForeignKeys(d, other_table),
                         LAMBDA fk : fk.referred_table = table)
    IN  [i \in 1..Len(fks) |->
            [type             |-> "referenced_by",
             table            |-> other_table,
             columns          |-> fks[i].constrained_columns,
             referred_columns |-> fks[i].referred_columns]]

\* _get_table_relationships(), lines 219-228: the incoming edges of a table,
\* from the tables of the inner listing other than itself, each with the
\* database that answered get_foreign_keys for it
RECURSIVE ReferencedBy(_, _, _)
ReferencedBy(ans, table, others) ==
    IF others = <<>>
    THEN <<>>
    ELSE ReferencedByOne(Head(ans), table, Head(others))
             \o ReferencedBy(Tail(ans), table, Tail(others))

\* A helper that has left through its handler, and one that waits for a call
Aborted == [next |-> Done, value |-> EmptyDict]
Waiting(call) == [next |-> call, value |-> EmptyDict]

Min(a, b) == IF a <= b THEN a ELSE b

\* _get_table_relationships(), lines 207-230: the loop at the k-th table of
\* the outer listing, whose get_foreign_keys is the i-th call: that call
\* (line 210), the inner listing (line 219), and get_foreign_keys for every
\* other table of it (line 221); any exception gives {}
RECURSIVE RelationshipsFrom(_, _, _, _)
RelationshipsFrom(ans, k, i, relationships) ==
    LET names == ans[1].names
    IN  IF k > Len(names) THEN [next |-> Done, value |-> relationships]
        ELSE IF i > Len(ans) THEN Waiting(<<"get_foreign_keys", names[k]>>)
        ELSE IF Fails(ans[i], "get_foreign_keys", names[k]) THEN Aborted
        ELSE IF i + 1 > Len(ans) THEN Waiting(ListingCall)
        ELSE IF Fails(ans[i + 1], "get_table_names", "") THEN Aborted
        ELSE LET others == SelectSeq(ans[i + 1].names, LAMBDA o : o # names[k])
                 made   == Min(Len(others), Len(ans) - (i + 1))
             IN  IF \E j \in 1..made :
                        Fails(ans[i + 1 + j], "get_foreign_keys", others[j])
                 THEN Aborted
                 ELSE IF made < Len(others)
                 THEN Waiting(<<"get_foreign_keys", others[made + 1]>>)
                 ELSE RelationshipsFrom(ans, k + 1, i + 2 + Len(others),
                          (names[k] :>
                              References(ans[i], names[k])
                              \o ReferencedBy(SubSeq(ans, i + 2, i + 1 + Len(others)),
                                              names[k], others))
                          @@ relationships)

\* _get_table_relationships(), lines 203-236
TableRelationships(ans) ==
    IF ans = <<>> THEN Waiting(ListingCall)
    ELSE IF Fails(ans[1], "get_table_names", "") THEN Aborted
    ELSE RelationshipsFrom(ans, 1, 2, EmptyDict)

GetTableRelationships(ans) == TableRelationships(ans).value

\* _get_sample_data(): one query per table; a table whose query fails gets []
SampleSteps == <<"sample">>

SampleNext(ans) == LoopNext(ans, 1, SampleSteps, {})

GetSampleData(ans) ==
    IF LoopAborted(ans, 1, SampleSteps, {})
    THEN EmptyDict
    ELSE LET names == ans[1].names
         IN  [table \in Range(names) |->
                 IF Fails(ans[Position(1, SampleSteps, Index(names, table), 1)],
                          "sample", table)
                 THEN <<>> ELSE LiveSample(table)]

\* _get_constraints_info(), lines 265-270
PrimaryKeyConstraint(table) ==
    IF LivePrimaryKey(table) # <<>>
    THEN << [type |-> "primary_key", columns |-> LivePrimaryKey(table)] >>
    ELSE << >>

\* _get_constraints_info(), lines 273-279
ForeignKeyConstraints(d, table) ==
    [i \in 1..Len(LiveForeignKeys(d, table)) |->
        [type             |-> "foreign_key",
         columns          |-> LiveForeignKeys(d, table)[i].constrained_columns,
         referred_table   |-> LiveForeignKeys(d, table)[i].referred_table,
         referred_columns |-> LiveForeignKeys(d, table)[i].referred_columns]]

\* _get_constraints_info(): the primary key and the foreign keys of each
\* table; any exception gives {}
ConstraintsSteps == <<"get_pk_constraint", "get_foreign_keys">>

ConstraintsNext(ans) == LoopNext(ans, 1, ConstraintsSteps, Range(ConstraintsSteps))

GetConstraintsInfo(ans) ==
    IF LoopAborted(ans, 1, ConstraintsSteps, Range(ConstraintsSteps))
    THEN EmptyDict
    ELSE LET names == ans[1].names
         IN  [table \in Range(names) |->
                 PrimaryKeyConstraint(table)
                 \o ForeignKeyConstraints(
                        ans[Position(1, ConstraintsSteps, Index(names, table), 2)], table)]

\* sum(f(table) for table in names)
RECURSIVE Total(_, _)
Total(f, names) ==
    IF names = <<>> THEN 0 ELSE f[Head(names)] + Total(f, Tail(names))

\* _get_database_statistics(): the listing that is counted, the listing that
\* is looped over, and three calls per table of it; any exception gives {}
StatisticsSteps == <<"get_columns", "get_indexes", "get_foreign_keys">>

StatisticsNext(ans) == LoopNext(ans, 2, StatisticsSteps, Range(StatisticsSteps))

GetDatabaseStatistics(ans) ==
    IF LoopAborted(ans, 2, StatisticsSteps, Range(StatisticsSteps))
    THEN EmptyDict
    ELSE LET names == ans[2].names
             At(table) == ans[Position(2, StatisticsSteps, Index(names, table), 3)]
         IN  [total_tables       |-> Len(ans[1].names),
              total_columns      |->
                  Total([table \in Range(names) |-> Len(LiveColumns(table))], names),
              total_indexes      |->
                  Total([table \in Range(names) |-> Len(LiveIndexes(table))], names),
              total_foreign_keys |->
                  Total([table \in Range(names) |->
                            Len(LiveForeignKeys(At(table), table))], names)]

\* The collection get_database_context builds under a key, lines 49-55
Collection(field, ans) ==
    CASE field = "tables"        -> GetAllTablesInfo(ans)
      [] field = "relationships" -> GetTableRelationships(ans)
      [] field = "sample_data"   -> GetSampleData(ans)
      [] field = "constraints"   -> GetConstraintsInfo(ans)
      [] field = "statistics"    -> GetDatabaseStatistics(ans)

\* The call the helper of a key makes after the calls that `ans` answered
NextCall(field, ans) ==
    CASE field = "tables"        -> AllTablesNext(ans)
      [] field = "relationships" -> TableRelationships(ans).next
      [] field = "sample_data"   -> SampleNext(ans)
      [] field = "constraints"   -> ConstraintsNext(ans)
      [] field = "statistics"    -> StatisticsNext(ans)

\* A context is modelled by the generations of the database that answered the
\* calls of each of its helpers, in their order
Answers(reads) == [i \in 1..Len(reads) |-> live[reads[i]]]

\* The context a build has produced
Content(ctx) ==
    [f \in Range(Fields) |-> Collection(f, Answers(ctx[f]))]

\* A helper that meets the same database at every call
Snapshot(d) == [i \in 1..Cardinality(Calls(<<"a", "b">>)) |-> d]

\* The methods of the inspector, whose results an Inspector keeps in its
\* info_cache; the COUNT and sample queries go to the database every time
InspectorMethods ==
    {"get_table_names", "get_columns", "get_indexes", "get_pk_constraint",
     "get_foreign_keys"}

\* self.inspector of service s (line 25) answers the call from its cache
Cached(s, call) ==
    caching /\ call[1] \in InspectorMethods /\ call \in DOMAIN info_cache[s]

\* The generation of the database that answers a call of service s
AnswerGen(s, call) == IF Cached(s, call) THEN info_cache[s][call] ELSE db

\* The caches after the call: the inspector keeps a result it had to fetch,
\* never an exception
Remember(s, call) ==
    IF /\ caching
       /\ call[1] \in InspectorMethods
       /\ call \notin DOMAIN info_cache[s]
       /\ ~Fails(live[db], call[1], call[2])
    THEN [info_cache EXCEPT ![s] = (call :> db) @@ @]
    ELSE info_cache

\* The dict literal of lines 49-55 has evaluated every helper
BuildDone(ctx) ==
    \A f \in Range(Fields) : NextCall(f, Answers(ctx[f])) = Done

\* The helper the dict literal of lines 49-55 is evaluating
NextField(ctx) ==
    Fields[CHOOSE i \in 1..Len(Fields) :
              /\ NextCall(Fields[i], Answers(ctx[Fields[i]])) # Done
              /\ \A j \in 1..(i - 1) : NextCall(Fields[j], Answers(ctx[Fields[j]])) = Done]

\* get_database_context(), lines 49-55: one round trip of one of the five
\* helpers, answered by the database as it is now or by the inspector's cache
Introspect(t) ==
    /\ spc[t] = "build"
    /\ LET f     == NextField(context[t])
           call  == NextCall(f, Answers(context[t][f]))
           after == [context[t] EXCEPT ![f] = Append(@, AnswerGen(on[t], call))]
       IN  /\ context' = [context EXCEPT ![t] = after]
           /\ info_cache' = Remember(on[t], call)
           /\ spc' = [spc EXCEPT ![t] = IF BuildDone(after) THEN "store_cache" ELSE "build"]
    /\ UNCHANGED <<now, ticks, cvars, avars, schema_cache, cache_timestamp, db, on, sret,
                   refreshGen, refreshPending, nextAfter, caching, table_call>>

\* The live database changes: its schema, or which of its calls raise
DbAlter(d) ==
    /\ db < MaxDbGen
    /\ db' = db + 1
    /\ live' = (db + 1 :> d) @@ live
    /\ UNCHANGED <<now, ticks, cvars, schema_cache, cache_timestamp, spc, on, context, sret,
                   refreshGen, refreshPending, nextAfter, caching, info_cache, table_call,
                   qvars, pvars, ovars>>

\* generate_sql(natural_query), query_generator.py line 32: the call of
\* get_database_context on the generator's own service. What follows in
\* generate_sql (the prompt, the OpenAI request, EXPLAIN of the generated
\* SELECT) uses the context that call returns and writes nothing of the
\* services.
GenerateSql(t) == CtxCheck(t, GeneratorService)

----------------------------------------------------------------------------
(* The analyses: no request has been made yet *)

NoQuery == [text |-> ""]
NoAnalysis == [kind |-> "none"]
NoTable == [row_count |-> None]
NoPartitioning == [kind |-> "none"]
NoRequest == [statement |-> ""]
NoResponse == [kind |-> "none"]

----------------------------------------------------------------------------
(* QueryAnalyzer *)

\* How many joins, subqueries and aggregates, each, a query of the model has,
\* and how many column references
MaxCount == 3
MaxColumnRefs == 3

\* The sequences over a set, up to a length
SeqsUpTo(S, n) == UNION {[1..k -> S] : k \in 0..n}

\* exp.Table nodes: table.name and table.alias
TableRefs ==
    { << [name |-> "orders", alias |-> ""] >>,
      << [name |-> "orders", alias |-> "o"] >>,
      << [name |-> "orders", alias |-> "o"], [name |-> "customers", alias |-> "c"] >> }

\* exp.Column nodes: column.table, which is "" when the reference has no
\* qualifier, and column.name
ColumnRefs ==
    { [table |-> "", name |-> "id"], [table |-> "o", name |-> "id"],
      [table |-> "o", name |-> "name"], [table |-> "orders", name |-> "id"] }

\* What sqlglot.parse_one returns: a tree, given by what find_all yields on it
\* for exp.Table and exp.Column (in the order of the traversal) and by how many
\* exp.Join, exp.Subquery and exp.Agg nodes it has
Tree(tables, columns, joins, subqueries, aggs) ==
    [kind |-> "tree", tables |-> tables, columns |-> columns,
     joins |-> joins, subqueries |-> subqueries, aggs |-> aggs]

\* What sqlglot.parse_one raises
ParseError(diagnostic) == [kind |-> "error", diagnostic |-> diagnostic]

\* The qualifiers a query can give its columns: none, or the name or the
\* alias of one of its tables
Qualifiers(tables) ==
    {""} \cup {tables[i].name : i \in 1..Len(tables)}
         \cup {tables[i].alias : i \in 1..Len(tables)}

\* The trees over the tables of a query: any column references with no join,
\* subquery or aggregate, and any counts of these with at most one reference
TreesOver(tables) ==
    LET refs(n) == {r \in SeqsUpTo(ColumnRefs, n) :
                       \A i \in 1..Len(r) : r[i].table \in Qualifiers(tables)}
    IN  {Tree(tables, c, 0, 0, 0) : c \in refs(MaxColumnRefs)}
        \cup {Tree(tables, c, j, s, a) :
                  c \in refs(1),
                  j \in 0..MaxCount, s \in 0..MaxCount, a \in 0..MaxCount}

Trees == UNION {TreesOver(tables) : tables \in TableRefs}

\* sqlglot.parse_one(query, dialect="postgres") on the queries of the
\* specification's scenarios
Texts ==
    {"SELECT id FROM orders",
     "SELECT o.id, c.name FROM orders o JOIN customers c ON o.customer_id = c.id",
     "SELECT o.id FROM orders o",
     "SELECT FROM"}

parse_one(text) ==
    CASE text = "SELECT id FROM orders" ->
             Tree(<< [name |-> "orders", alias |-> ""] >>,
                  << [table |-> "", name |-> "id"] >>, 0, 0, 0)
      [] text = "SELECT o.id, c.name FROM orders o JOIN customers c ON o.customer_id = c.id" ->
             Tree(<< [name |-> "orders", alias |-> "o"],
                     [name |-> "customers", alias |-> "c"] >>,
                  << [table |-> "o", name |-> "id"], [table |-> "c", name |-> "name"],
                     [table |-> "o", name |-> "customer_id"],
                     [table |-> "c", name |-> "id"] >>, 1, 0, 0)
      [] text = "SELECT o.id FROM orders o" ->
             Tree(<< [name |-> "orders", alias |-> "o"] >>,
                  << [table |-> "o", name |-> "id"] >>, 0, 0, 0)
      [] text = "SELECT FROM" ->
             ParseError("Required argument 'this' missing for From")

\* A query: its text and what the parser makes of it. OtherText stands for
\* the text of a query that parses to the tree given with it.
OtherText == "..."

Queries ==
    {[text |-> q, parsed |-> parse_one(q)] : q \in Texts}
    \cup {[text |-> OtherText, parsed |-> p] : p \in Trees}

\* _extract_tables(parsed)
ExtractTables(parsed) == {parsed.tables[i].name : i \in 1..Len(parsed.tables)}

\* _extract_columns, line 43
TableName(column) == IF column.table # "" THEN column.table ELSE "unknown"

\* Fault variant of ExtractColumnsFrom: a name is kept once per table
RECURSIVE ExtractColumnsOnce(_, _)
ExtractColumnsOnce(columns, columns_by_table) ==
    IF columns = <<>>
    THEN columns_by_table
    ELSE LET column == Head(columns)
             sofar  == IF TableName(column) \in DOMAIN columns_by_table
                       THEN columns_by_table[TableName(column)]
                       ELSE <<>>
         IN  ExtractColumnsOnce(
                 Tail(columns),
                 DictSet(columns_by_table, TableName(column),
                         IF column.name \in Range(sofar)
                         THEN sofar ELSE Append(sofar, column.name)))

\* _extract_columns, lines 42-46: the loop, from the dict built so far
RECURSIVE ExtractColumnsFrom(_, _)
ExtractColumnsFrom(columns, columns_by_table) ==
    IF columns = <<>>
    THEN columns_by_table
    ELSE LET column == Head(columns)
             sofar  == IF TableName(column) \in DOMAIN columns_by_table
                       THEN columns_by_table[TableName(column)]
                       ELSE <<>>
         IN  ExtractColumnsFrom(
                 Tail(columns),
                 DictSet(columns_by_table, TableName(column),
                         Append(sofar, column.name)))

\* _extract_columns(parsed)
ExtractColumns(parsed) == ExtractColumnsFrom(parsed.columns, EmptyDict)

\* _analyze_complexity, lines 61 and 63
SimpleUpTo == 2
ModerateUpTo == 5

\* _analyze_complexity, lines 61-66
Classify(total_complexity) ==
    IF total_complexity <= SimpleUpTo THEN "simple"
    ELSE IF total_complexity <= ModerateUpTo THEN "moderate"
    ELSE "complex"

\* The classes of sqlglot.exp the analyzer names (lines 36, 42, 51, 54), and
\* the module as it is installed: with or without a class Agg
ExpClasses == {"Table", "Column", "Join", "Subquery"}
ExpModules == {ExpClasses, ExpClasses \cup {"Agg"}}

\* What a step of the analysis returns
Value(v) == [kind |-> "returned", value |-> v]

\* The evaluation of `exp.Agg` (lines 57 and 81) where the module has no such
\* attribute
AttributeError ==
    [kind |-> "raised", type |-> "AttributeError",
     message |-> "module 'sqlglot.exp' has no attribute 'Agg'"]

\* _analyze_complexity(parsed): the joins and the subqueries are counted
\* (lines 51 and 54), then `exp.Agg` is evaluated (line 57)
AnalyzeComplexity(parsed, exp) ==
    IF "Agg" \notin exp THEN AttributeError
    ELSE Value(Classify(parsed.joins + parsed.subqueries + parsed.aggs))

\* _estimate_query_cost: the costs are floats with one decimal, kept in tenths
BaseCost == 10
JoinCost == 20
SubqueryCost == 30
AggCost == 15

\* _estimate_query_cost(parsed), in tenths: the joins and the subqueries are
\* counted (lines 75 and 78), then `exp.Agg` is evaluated (line 81)
EstimateQueryCost(parsed, exp) ==
    IF "Agg" \notin exp THEN AttributeError
    ELSE Value(BaseCost + parsed.joins * JoinCost + parsed.subqueries * SubqueryCost
                        + parsed.aggs * AggCost)

\* raise ValueError(f"Failed to analyze query: {str(e)}")
ValueError(diagnostic) ==
    [kind |-> "raised", type |-> "ValueError",
     message |-> <<"Failed to analyze query: ", diagnostic>>]

\* Lines 19-30 of analyze_query: the four steps in their order, then
\* QueryAnalysis(...); an exception of a step leaves the try block
QueryAnalysis(parsed, exp) ==
    LET tables_used      == ExtractTables(parsed)
        columns_accessed == ExtractColumns(parsed)
        query_complexity == AnalyzeComplexity(parsed, exp)
        estimated_cost   == EstimateQueryCost(parsed, exp)
    IN  IF query_complexity.kind = "raised" THEN query_complexity
        ELSE IF estimated_cost.kind = "raised" THEN estimated_cost
        ELSE [kind |-> "analysis",
              tables_used      |-> tables_used,
              columns_accessed |-> columns_accessed,
              query_complexity |-> query_complexity.value,
              estimated_cost   |-> estimated_cost.value]

\* analyze_query(query): what it returns or raises; `except Exception`
\* (lines 31-32) turns every exception of the try block into a ValueError
analyze_query(q, exp) ==
    IF q.parsed.kind = "error"
    THEN ValueError(q.parsed.diagnostic)
    ELSE LET result == QueryAnalysis(q.parsed, exp)
         IN  IF result.kind = "raised" THEN ValueError(result.message) ELSE result

\* A request calls analyze_query on its query
AnalyzeQuery ==
    /\ query # NoQuery
    /\ analysis = NoAnalysis
    /\ analysis' = analyze_query(query, sqlglot_exp)
    /\ UNCHANGED <<now, ticks, cvars, svars, live, query, sqlglot_exp, pvars,
                   ovars>>

----------------------------------------------------------------------------
(* DatabaseAnalyzer *)

\* How many columns a table of the model has
MaxTableColumns == 2

\* The names inspector.get_columns gives, in its order
ColumnNames == <<"c1", "c2", "c3", "c4">>

\* SELECT COUNT(*) and SELECT COUNT(DISTINCT column), around the thresholds
RowCounts == {0, 999999, 1000000, 1000001, 2000000}
DistinctCounts == {5, 10, 11, 50, 999, 1000, 1001}

\* The lookups of get_table_statistics: lines 16, 20, 46 and 56
Lookups == {"row_count", "table_size", "distinct_values", "indexes"}
NoFailure == "none"

\* The tables get_table_statistics is called on: the row count, per column in
\* the order of the columns the count of distinct values, and the lookup that
\* raises, if one does (a table without columns has no distinct-value lookup)
TableStatistics ==
    {[row_count |-> r,
      columns   |-> [i \in 1..Len(dv) |->
                        [name |-> ColumnNames[i], distinct_values |-> dv[i]]],
      failing   |-> f] :
        r \in RowCounts, dv \in SeqsUpTo(DistinctCounts, MaxTableColumns),
        f \in Lookups \cup {NoFailure}}
    \ [row_count : RowCounts, columns : {<<>>}, failing : {"distinct_values"}]

\* get_table_statistics(table_name), lines 10-31, with _get_column_statistics
\* and _get_index_information: no lookup is inside a try block, so the
\* exception of one leaves the method
GetTableStatistics(table) ==
    IF table.failing # NoFailure
    THEN [kind |-> "raised", lookup |-> table.failing]
    ELSE [kind |-> "stats", row_count |-> table.row_count, columns |-> table.columns]

\* analyze_table_for_partitioning, lines 76 and 82
LargeTableRows == 1000000
MinDistinctValues == 10
MaxDistinctValues == 1000

\* Fault variant of IsLargeTable: a table of exactly one million rows is large
IsLargeTableAtLeast(stats) == stats.row_count >= LargeTableRows

\* analyze_table_for_partitioning, line 76
IsLargeTable(stats) == stats.row_count > LargeTableRows

\* analyze_table_for_partitioning, line 82
IsPartitionKey(col_stats) ==
    /\ col_stats.distinct_values > MinDistinctValues
    /\ col_stats.distinct_values < MaxDistinctValues

\* analyze_table_for_partitioning(table_name), from the statistics of the table
AnalyzeTableForPartitioning(stats) ==
    LET keys == SelectSeq(stats.columns, IsPartitionKey)
    IN  IF IsLargeTable(stats)
        THEN [kind |-> "analysis",
              recommended |-> TRUE,
              reason |-> "Table has more than 1 million rows",
              suggested_partition_key |-> IF keys # <<>> THEN Head(keys).name ELSE None,
              estimated_benefit |-> IF keys # <<>> THEN "high" ELSE "low"]
        ELSE [kind |-> "analysis",
              recommended |-> FALSE,
              reason |-> "",
              suggested_partition_key |-> None,
              estimated_benefit |-> "low"]

\* analyze_table_for_partitioning(table_name), line 67: the exception of
\* get_table_statistics leaves the method too
analyze_table_for_partitioning(table) ==
    IF GetTableStatistics(table).kind = "raised"
    THEN [kind |-> "raised"]
    ELSE AnalyzeTableForPartitioning(GetTableStatistics(table))

\* A request calls analyze_table_for_partitioning on its table
AnalyzeTable ==
    /\ table_stats # NoTable
    /\ partitioning = NoPartitioning
    /\ partitioning' = analyze_table_for_partitioning(table_stats)
    /\ UNCHANGED <<now, ticks, cvars, svars, live, qvars, table_stats,
                   ovars>>

----------------------------------------------------------------------------

\* CacheService() and SchemaService() after construction
InitServices ==
    /\ now = 0
    /\ ticks = 0
    /\ cache = EmptyDict
    /\ meta = EmptyDict
    /\ lock = NoThread
    /\ pc = [t \in Threads |-> "idle"]
    /\ loc = [t \in Threads |-> NoLoc]
    /\ ret = [t \in Threads |-> NoCall]
    /\ lastSet = [k \in Keys |-> NoSet]
    /\ lastEffect = NoEffect
    /\ schema_cache = [s \in Services |-> NoContext]
    /\ cache_timestamp = [s \in Services |-> NoTime]
    /\ db = 0
    /\ info_cache = [s \in Services |-> EmptyDict]
    /\ spc = [t \in Threads |-> "idle"]
    /\ on = [t \in Threads |-> ApiService]
    /\ table_call = [t \in Threads |-> NoTableCall]
    /\ context = [t \in Threads |-> NoContext]
    /\ sret = [t \in Threads |-> SReturned("none", NoContext)]
    /\ refreshGen = NoRefresh
    /\ refreshPending = [s \in Services |-> FALSE]
    /\ nextAfter = [t \in Threads |-> FALSE]
    /\ opc = [t \in Threads |-> "idle"]
    /\ request = [t \in Threads |-> NoRequest]
    /\ response = [t \in Threads |-> NoResponse]
    /\ executed = {}

\* No analysis has been asked for
InitNoAnalysis ==
    /\ sqlglot_exp = ExpClasses
    /\ query = NoQuery
    /\ analysis = NoAnalysis
    /\ table_stats = NoTable
    /\ partitioning = NoPartitioning

\* The process starts on the healthy database, with SQLAlchemy's inspector
Init ==
    /\ InitServices
    /\ InitNoAnalysis
    /\ live = (0 :> HealthyDb)
    /\ caching = TRUE

\* The same, with an inspector that may or may not keep its results
InitBuild ==
    /\ InitServices
    /\ InitNoAnalysis
    /\ live = (0 :> HealthyDb)
    /\ caching \in BOOLEAN

\* A database of one table, for the runs in which what the tables hold plays
\* no part
SmallDb == [names |-> <<"a">>, fks |-> {}, failing |-> {}]

InitSchema ==
    /\ InitServices
    /\ InitNoAnalysis
    /\ live = (0 :> SmallDb)
    /\ caching \in BOOLEAN

\* A database that has no table yet, for the runs of two threads
EmptyDb == [names |-> <<>>, fks |-> {}, failing |-> {}]

InitConc ==
    /\ InitServices
    /\ InitNoAnalysis
    /\ live = (0 :> EmptyDb)
    /\ caching \in BOOLEAN

\* One worker thread issues every request, in any order, at any time
NextCache ==
    \/ \E d \in TickSteps : Tick(d)
    \/ \E k \in OneKey, c \in GetLevels : Get("t1", k, c)
    \/ GetEvict("t1")
    \/ \E k \in OneKey, v \in Values, c \in SetLevels : Set("t1", k, v, c)
    \/ SetMeta("t1")
    \/ InvalidateAll("t1")
    \/ \E p \in Patterns : InvalidateByPattern("t1", p)
    \/ GetCacheStats("t1")
    \/ \E f \in Wrapped, a \in {<<>>} : WrapperCall("t1", f, a)
    \/ \E r \in Values : WrapperCompute("t1", r)
    \/ WrapperRaise("t1")
    \/ WrapperSet("t1")

SpecCache == Init /\ [][NextCache]_vars

\* The requests of two worker threads interleave
ConcValues == {"v1", "{}"}
ConcLevels == {"statistics"}
ConcSteps  == {301}
ConcWrapped == {f \in Wrapped : f.cache_level \in ConcLevels}

NextConc ==
    \/ \E d \in ConcSteps : Tick(d)
    \/ \E t \in Threads, k \in OneKey, c \in ConcLevels : Get(t, k, c)
    \/ \E t \in Threads : GetEvict(t)
    \/ \E t \in Threads, k \in OneKey, v \in ConcValues, c \in ConcLevels : Set(t, k, v, c)
    \/ \E t \in Threads : SetMeta(t)
    \/ \E t \in Threads : InvalidateAll(t)
    \/ \E t \in Threads, p \in Patterns : InvalidateByPattern(t, p)
    \/ \E t \in Threads : GetCacheStats(t)
    \/ \E t \in Threads, f \in ConcWrapped, a \in {<<>>} : WrapperCall(t, f, a)
    \/ \E t \in Threads, r \in ConcValues \cup {None} : WrapperCompute(t, r)
    \/ \E t \in Threads : WrapperRaise(t)
    \/ \E t \in Threads : WrapperSet(t)

SpecConc == Init /\ [][NextConc]_vars

\* One worker thread issues every SchemaService request, in any order
SchemaSteps == {1, 299}

\* What the schema of the small database changes to: the table gets a foreign
\* key to itself
SchemaDbs == {[SmallDb EXCEPT !.fks = {CandidateFKs[2]}]}

NextSchema ==
    \/ \E d \in SchemaSteps : Tick(d)
    \/ \E d \in SchemaDbs : DbAlter(d)
    \/ CtxCheck("t1", ApiService)
    \/ CtxAge("t1")
    \/ CtxHit("t1")
    \/ Introspect("t1")
    \/ StoreCache("t1")
    \/ StoreTimestamp("t1")
    \/ RefreshAll("t1")
    \/ RefreshTimestamp("t1")
    \/ \E c \in OtherCacheTypes : RefreshUnknown("t1", c)

SpecSchema == InitSchema /\ [][NextSchema]_vars

\* The SchemaService requests of two worker threads interleave
SchemaConcSteps == {300}

\* What the empty database changes to: its first table is created
ConcDbs == {SmallDb}

NextSchemaConc ==
    \/ \E d \in SchemaConcSteps : Tick(d)
    \/ \E d \in ConcDbs : DbAlter(d)
    \/ \E t \in Threads : CtxCheck(t, ApiService)
    \/ \E t \in Threads : CtxAge(t)
    \/ \E t \in Threads : CtxHit(t)
    \/ \E t \in Threads : Introspect(t)
    \/ \E t \in Threads : StoreCache(t)
    \/ \E t \in Threads : StoreTimestamp(t)
    \/ \E t \in Threads : RefreshAll(t)
    \/ \E t \in Threads : RefreshTimestamp(t)
    \/ \E t \in Threads, c \in OtherCacheTypes : RefreshUnknown(t, c)

SpecSchemaConc == InitConc /\ [][NextSchemaConc]_vars

\* The databases a build can meet: the healthy one, its foreign keys dropped
\* or all present, table b dropped, one call failing, and the database out of
\* reach
BuildDbs ==
    {HealthyDb,
     [HealthyDb EXCEPT !.fks = {}],
     [HealthyDb EXCEPT !.fks = Range(CandidateFKs)],
     [HealthyDb EXCEPT !.names = <<"a">>],
     [HealthyDb EXCEPT !.failing = {ListingCall}],
     [HealthyDb EXCEPT !.failing = {<<"get_pk_constraint", "a">>}],
     [HealthyDb EXCEPT !.failing = {<<"get_foreign_keys", "b">>}],
     [HealthyDb EXCEPT !.failing = {<<"count", "b">>}],
     [HealthyDb EXCEPT !.failing = Calls(<<"a", "b">>)]}

\* One worker thread asks for the context of a database that changes and fails
NextBuild ==
    \/ \E d \in BuildDbs : DbAlter(d)
    \/ CtxCheck("t1", ApiService)
    \/ CtxAge("t1")
    \/ CtxHit("t1")
    \/ Introspect("t1")
    \/ StoreCache("t1")
    \/ StoreTimestamp("t1")

SpecBuild == InitBuild /\ [][NextBuild]_vars

\* A request brings a query, which is analysed
InitAnalyze ==
    /\ InitServices
    /\ live = (0 :> HealthyDb)
    /\ caching = TRUE
    /\ sqlglot_exp \in ExpModules
    /\ query \in Queries
    /\ analysis = NoAnalysis
    /\ table_stats = NoTable
    /\ partitioning = NoPartitioning

NextAnalyze == AnalyzeQuery

SpecAnalyze == InitAnalyze /\ [][NextAnalyze]_vars

\* A request names a table, which is analysed for partitioning
InitPartition ==
    /\ InitServices
    /\ live = (0 :> HealthyDb)
    /\ caching = TRUE
    /\ sqlglot_exp = ExpClasses
    /\ query = NoQuery
    /\ analysis = NoAnalysis
    /\ table_stats \in TableStatistics
    /\ partitioning = NoPartitioning

NextPartition == AnalyzeTable

SpecPartition == InitPartition /\ [][NextPartition]_vars

----------------------------------------------------------------------------
(* Claims about CacheService *)

\* What get_cache_stats() counts under a level
LevelCount(stats, level) ==
    IF level \in DOMAIN stats.entries_by_level THEN stats.entries_by_level[level] ELSE 0

\* C1. Cache TTL invariant: a get(key, category) of a present key made more than
\* TTL[category] seconds after the key's last set returns None and removes the
\* entry from both dicts, so get_cache_stats() counts one entry less in
\* total_entries and under the entry's level; a get made at or before the TTL
\* returns the stored value and removes nothing.
C1_TTLInvariant ==
    [][\A t \in Threads :
        /\ \A k \in Keys, c \in CacheLevels :
              (Get(t, k, c) /\ k \in DOMAIN cache) =>
                  IF now - meta[k].timestamp > cache_levels[c]
                  THEN pc'[t] = "get_evict" /\ lock' = t
                  ELSE /\ ret'[t] = Returned("get", k, c, cache[k])
                       /\ cache' = cache /\ meta' = meta
        /\ (GetEvict(t) /\ loc[t].op = "get") =>
              /\ ret'[t] = Returned("get", loc[t].key, loc[t].level, None)
              /\ loc[t].key \notin DOMAIN cache'
              /\ loc[t].key \notin DOMAIN meta'
              /\ CacheStats'.total_entries = CacheStats.total_entries - 1
              /\ LevelCount(CacheStats', meta[loc[t].key].cache_level)
                    = LevelCount(CacheStats, meta[loc[t].key].cache_level) - 1
    ]_vars

\* A get made one second after the TTL has evicted the only entry
C1_Witness ==
    \E t \in Threads, k \in Keys :
        /\ lastEffect.what = "evicted"
        /\ ret[t].op = "get" /\ ret[t].key = k /\ ret[t].val = None
        /\ ret[t].level \in CacheLevels
        /\ k \notin DOMAIN cache /\ k \notin DOMAIN meta
        /\ CacheStats.total_entries = 0

\* C2. The expiry of an entry is decided by the TTL of the category it was
\* stored under by set, not by the category passed to get: a get of a present
\* key evicts exactly when the entry's age exceeds the TTL of the stored category.
C2_StoredCategoryDecides ==
    [][\A t \in Threads, k \in Keys, c \in GetLevels :
        (Get(t, k, c) /\ k \in DOMAIN cache /\ meta[k].cache_level \in CacheLevels) =>
            ( pc'[t] = "get_evict"
                <=> now - meta[k].timestamp > cache_levels[meta[k].cache_level] )
    ]_vars

\* C3. Cache override invariant: a set on a key that already has an entry
\* (fresh, expired, or of another category) replaces the value and the recorded
\* category and stamps the current time, and a get of the set's category made
\* within that TTL of the set returns the second value.
C3_SetOverrides ==
    [][\A t \in Threads :
        /\ \A k \in Keys, v \in Values, c \in SetLevels :
              Set(t, k, v, c) => /\ k \in DOMAIN cache' /\ cache'[k] = v
                                 /\ pc'[t] = "set_meta" /\ lock' = t
                                 /\ loc'[t].key = k /\ loc'[t].level = c
        /\ (SetMeta(t) /\ loc[t].key \in DOMAIN meta) =>
              /\ cache'[loc[t].key] = cache[loc[t].key]
              /\ meta'[loc[t].key].timestamp = now
              /\ meta'[loc[t].key].cache_level = loc[t].level
        /\ \A k \in Keys, c \in CacheLevels :
              ( /\ Get(t, k, c)
                /\ lastSet[k] # NoSet
                /\ lastSet[k].level = c
                /\ now - lastSet[k].at <= cache_levels[c] ) =>
                    ret'[t] = Returned("get", k, c, lastSet[k].val)
    ]_vars

\* A set has replaced an expired entry and a later get has returned its value
C3_Witness ==
    \E t \in Threads, k \in Keys :
        /\ lastEffect.what = "set_expired"
        /\ lastSet[k] # NoSet /\ lastSet[k].val # None
        /\ now > lastSet[k].at
        /\ ret[t] = Returned("get", k, lastSet[k].level, lastSet[k].val)

\* C4. The expiry check and the eviction of get are one atomic step with
\* respect to the lock: while a get stands between its check and its eviction
\* no other call changes the two dicts, and the entry it then evicts is the
\* expired one it checked, with no set under way on that key.
C4_CheckAndEvictAtomic ==
    [][\A t \in Threads :
        pc[t] = "get_evict" =>
            IF pc'[t] = "get_evict"
            THEN cache' = cache /\ meta' = meta
            ELSE /\ loc[t].key \in DOMAIN cache /\ loc[t].key \in DOMAIN meta
                 /\ now - meta[loc[t].key].timestamp > 
                        (IF loc[t].level \in CacheLevels
                         THEN cache_levels[loc[t].level] ELSE TTL_default)
                 /\ \A u \in Threads \ {t} :
                        ~(pc[u] = "set_meta" /\ loc[u].key = loc[t].key)
    ]_vars

\* A get holds the lock between check and eviction while another thread's
\* wrapper is about to set the same key
C4_Witness ==
    \E t \in Threads, u \in Threads :
        /\ t # u
        /\ pc[t] = "get_evict" /\ lock = t
        /\ pc[u] = "w_set" /\ loc[u].key = loc[t].key

\* C5. Read-after-write visibility: a get(key, category) that runs after a
\* set(key, value, category) has returned, within the TTL and with no later set
\* or invalidation of the key, returns that value; and every get that finds
\* the key reads a value and a metadata dict written by one and the same set.
C5_ReadAfterWrite ==
    [][\A t \in Threads, k \in Keys, c \in CacheLevels :
        /\ ( /\ Get(t, k, c)
             /\ lastSet[k] # NoSet
             /\ lastSet[k].level = c
             /\ now - lastSet[k].at <= cache_levels[c] ) =>
                 ret'[t] = Returned("get", k, c, lastSet[k].val)
        /\ (Get(t, k, c) /\ k \in DOMAIN cache) =>
              /\ k \in DOMAIN meta
              /\ lastSet[k] # NoSet
              /\ cache[k] = lastSet[k].val
              /\ meta[k].timestamp = lastSet[k].at
              /\ meta[k].cache_level = lastSet[k].level
    ]_vars

\* One thread's set has returned and the other thread's get has read its value
C5_Witness ==
    \E t \in Threads, u \in Threads, k \in Keys :
        /\ t # u
        /\ ret[t] = Returned("set", k, lastSet[k].level, None)
        /\ lastSet[k] # NoSet /\ lastSet[k].val # None
        /\ ret[u] = Returned("get", k, lastSet[k].level, lastSet[k].val)

\* C6 as stated. The cache is partitioned by category: a get for one category
\* never returns, and a set for one category never overwrites, the entry stored
\* under the same key in another category.
C6_PartitionedByCategory ==
    [][\A t \in Threads, k \in Keys, c \in SetLevels :
        /\ (Get(t, k, c) /\ k \in DOMAIN cache /\ meta[k].cache_level # c) =>
              ~(pc'[t] = "idle" /\ ret'[t] = Returned("get", k, c, cache[k]))
        /\ \A v \in Values :
              (Set(t, k, v, c) /\ k \in DOMAIN meta /\ meta[k].cache_level # c) =>
                  cache'[k] = cache[k]
    ]_vars

\* C6 amended. The cache is keyed by the key string alone: a set under any
\* category replaces the one entry of the key, and a get under any category
\* returns the value of the last set, whatever category that set named, while
\* the entry is no older than the TTL of both categories.
C6_KeyedByKeyAlone ==
    [][\A t \in Threads, k \in Keys, c \in CacheLevels :
        /\ \A v \in Values :
              Set(t, k, v, c) => (DOMAIN cache' = DOMAIN cache \cup {k} /\ cache'[k] = v)
        /\ ( /\ Get(t, k, c)
             /\ lastSet[k] # NoSet
             /\ lastSet[k].level \in CacheLevels
             /\ now - lastSet[k].at <= cache_levels[c]
             /\ now - lastSet[k].at <= cache_levels[lastSet[k].level] ) =>
                 ret'[t] = Returned("get", k, c, lastSet[k].val)
    ]_vars

\* A set of another category has replaced the entry, and a get naming a
\* category other than that of the last set has returned the last set's value
C6_Witness ==
    \E t \in Threads, k \in Keys :
        /\ lastEffect.what \in {"set_fresh", "set_expired"}
        /\ lastEffect.other_level
        /\ lastSet[k] # NoSet /\ lastSet[k].val # None
        /\ ret[t].op = "get" /\ ret[t].key = k
        /\ ret[t].level \in CacheLevels /\ ret[t].level # lastSet[k].level
        /\ ret[t].val = lastSet[k].val

\* C7. Memoization wrapper: once a call of the wrapper has stored a result,
\* whatever it is, a later call with the same key made within the TTL and
\* without an invalidation returns that result and does not run the function.
C7_MemoizedResultIsReused ==
    [][\A t \in Threads, f \in Wrapped, a \in WrappedArgs :
        ( /\ WrapperCall(t, f, a)
          /\ lastSet[CacheKey(f, a)] # NoSet
          /\ lastSet[CacheKey(f, a)].by = "wrapper"
          /\ lastSet[CacheKey(f, a)].level = f.cache_level
          /\ now - lastSet[CacheKey(f, a)].at <= cache_levels[f.cache_level] ) =>
              /\ pc'[t] = "idle"
              /\ ret'[t] = Returned("wrapper", CacheKey(f, a), f.cache_level,
                                    lastSet[CacheKey(f, a)].val)
    ]_vars

----------------------------------------------------------------------------
(* Claims about SchemaService *)

\* C8. getContext() cache hit: a get_database_context call that finds a cached
\* context whose age is below the configured duration returns that cached
\* context as a whole, and makes no introspection call and no change on the way.
C8_CacheHit ==
    [][\A t \in Threads :
        /\ \A s \in Services :
              (CtxCheck(t, s) /\ schema_cache[s] # NoContext /\ cache_timestamp[s] # NoTime)
              => spc'[t] = "ctx_age"
        /\ (/\ CtxAge(t)
            /\ cache_timestamp[on[t]] # NoTime
            /\ now - cache_timestamp[on[t]] < CACHE_TTL) =>
              spc'[t] = "ctx_hit"
        /\ (CtxHit(t) /\ schema_cache[on[t]] # NoContext) =>
              /\ sret'[t] = SReturned("hit", schema_cache[on[t]])
              /\ context[t] = NoContext /\ context'[t] = NoContext
              /\ info_cache' = info_cache
    ]_vars

\* A call has returned the cached context one second before it expires
C8_Witness ==
    \E t \in Threads :
        /\ sret[t].kind = "hit"
        /\ schema_cache[on[t]] # NoContext
        /\ sret[t].ctx = schema_cache[on[t]]
        /\ cache_timestamp[on[t]] # NoTime
        /\ now - cache_timestamp[on[t]] = CACHE_TTL - 1

\* Every call behind the context was answered by the database as it was at
\* generation g or later
ReadSince(ctx, g) ==
    \A f \in Range(Fields) : \A i \in 1..Len(ctx[f]) : ctx[f][i] >= g

\* C9. After refresh_cache("all") has returned, the next get_database_context
\* call rebuilds the context from live introspection, and no collection of the
\* context it returns was read from the database before the refresh returned;
\* also when another thread's build was under way during the refresh.
C9_RefreshThenRebuild ==
    [][\A t \in Threads :
        (/\ on[t] = ApiService
         /\ spc[t] # "idle" /\ spc'[t] = "idle"
         /\ nextAfter[t]) =>
            /\ sret'[t].kind = "built"
            /\ ReadSince(sret'[t].ctx, refreshGen)
    ]_vars

\* C10. refresh_cache with any cache_type other than "all" returns the
\* unknown-cache-type error (HTTP 400 at the endpoint) and leaves the cached
\* context and its timestamp as they are, so that a cache that was valid stays
\* valid; refresh_cache("all") returns success with both fields cleared.
C10_RefreshCache ==
    [][\A t \in Threads :
        /\ \A c \in OtherCacheTypes :
              RefreshUnknown(t, c) =>
                  /\ sret'[t].kind = "error" /\ RefreshStatus(sret'[t]) = 400
                  /\ schema_cache' = schema_cache
                  /\ cache_timestamp' = cache_timestamp
                  /\ now' = now
        /\ (spc[t] = "refresh_ts" /\ spc'[t] = "idle") =>
              /\ sret'[t].kind = "refreshed" /\ RefreshStatus(sret'[t]) = 200
              /\ schema_cache'[ApiService] = NoContext
              /\ cache_timestamp'[ApiService] = NoTime
    ]_vars

\* An unknown cache type has been refused while a valid context is cached
C10_Witness ==
    \E t \in Threads :
        /\ sret[t].kind = "error"
        /\ CacheIsSet(ApiService)
        /\ now - cache_timestamp[ApiService] < CACHE_TTL

----------------------------------------------------------------------------
(* Claims about the collections of a context *)

\* The database as it would answer if none of its calls raised
Reachable(d) == [d EXCEPT !.failing = {}]

\* The i-th call of the helper of a key, given the generations that answered
CallAt(f, reads, i) == NextCall(f, SubSeq(Answers(reads), 1, i - 1))

\* A call behind a collection of the context raised
BuildFailed(ctx) ==
    \E f \in Range(Fields) : \E i \in 1..Len(ctx[f]) :
        Fails(live[ctx[f][i]], CallAt(f, ctx[f], i)[1], CallAt(f, ctx[f], i)[2])

\* Every call of a helper met the database of one generation
OneGeneration(reads) == \A i \in 1..Len(reads) : reads[i] = reads[1]

\* The database a returned context took its tables from
TablesDb(t) == live[sret[t].ctx["tables"][1]]

\* C11. A get_database_context call during which introspection itself failed
\* (listing the tables raised, as when the database is unreachable) returns an
\* error value: it does not return a context.
C11_IntrospectionFailureIsError ==
    \A t \in Threads :
        sret[t].kind = "built" =>
            \A f \in Range(Fields) :
                ~Fails(live[sret[t].ctx[f][1]], "get_table_names", "")

\* The introspection call behind each per-table field of the tables map
StepCall ==
    [columns |-> "get_columns", indexes |-> "get_indexes",
     primary_keys |-> "get_pk_constraint", foreign_keys |-> "get_foreign_keys",
     row_count |-> "count"]

\* The empty or zero value of a per-table field
EmptyValue(g) == IF g = "row_count" THEN 0 ELSE <<>>

\* C12. Per-table graceful degradation: when the tables are listed and one
\* introspection step (columns, indexes, primary key, foreign keys, row count)
\* fails for one table, every listed table is in the tables map of the returned
\* context, the failing field of that table is empty or zero, and every other
\* field of every table has its real value. Stated for the builds whose
\* tables were read from a database that did not change on the way.
C12_PerTableDegradation ==
    \A t \in Threads :
        (/\ sret[t].kind = "built"
         /\ OneGeneration(sret[t].ctx["tables"])
         /\ ~Fails(TablesDb(t), "get_table_names", "")) =>
            LET tables == Content(sret[t].ctx)["tables"]
                real   == GetAllTablesInfo(Snapshot(Reachable(TablesDb(t))))
            IN  \A x \in Range(TablesDb(t).names) :
                    /\ x \in DOMAIN tables
                    /\ \A g \in DOMAIN StepCall :
                          IF Fails(TablesDb(t), StepCall[g], x)
                          THEN tables[x][g] = EmptyValue(g)
                          ELSE tables[x][g] = real[x][g]

\* C13. A cache write happens only after the build fully succeeded: the cached
\* context never holds a collection whose introspection failed, so a call after
\* a failed build finds no valid entry and introspects again.
C13_CacheOnlyAfterSuccess ==
    schema_cache[ApiService] # NoContext => ~BuildFailed(schema_cache[ApiService])

\* The database a returned context took its relationships from
RelationshipsDb(t) == live[sret[t].ctx["relationships"][1]]

\* The edge a foreign key puts in the list of the table that has it
ReferencesEdge(fk) ==
    [type |-> "references", table |-> fk.referred_table,
     columns |-> fk.constrained_columns, referred_columns |-> fk.referred_columns]

\* The edge a foreign key puts in the list of the table it refers to
ReferencedByEdge(fk) ==
    [type |-> "referenced_by", table |-> fk.table,
     columns |-> fk.constrained_columns, referred_columns |-> fk.referred_columns]

\* The relationships map was built without an exception
RelationshipsBuilt(t) ==
    /\ sret[t].kind = "built"
    /\ Content(sret[t].ctx)["relationships"] # EmptyDict

\* C14. Relationship symmetry: for every foreign key from a table A to an
\* introspected table B, for every pair A, B, the list of A has a "references"
\* edge to B and the list of B has the matching "referenced_by" edge from A
\* with the same columns; and every edge of every list is one of these.
\* Stated over the edges of the map itself: every "references" edge to a
\* table of the map has its "referenced_by" edge there, and the other way.
C14_RelationshipSymmetry ==
    \A t \in Threads :
        RelationshipsBuilt(t) =>
            LET rel == Content(sret[t].ctx)["relationships"]
            IN  \A x \in DOMAIN rel : \A e \in Range(rel[x]) :
                    /\ (e.type = "references" /\ e.table \in DOMAIN rel) =>
                          [e EXCEPT !.type = "referenced_by", !.table = x]
                              \in Range(rel[e.table])
                    /\ e.type = "referenced_by" =>
                          /\ e.table \in DOMAIN rel
                          /\ [e EXCEPT !.type = "references", !.table = x]
                                 \in Range(rel[e.table])

----------------------------------------------------------------------------
(* Claims about QueryAnalyzer *)

\* The score of the analysed query
Score == query.parsed.joins + query.parsed.subqueries + query.parsed.aggs

\* C15. The complexity class is the threshold function of the score, the sum
\* of the join, subquery and aggregate counts: simple up to 2, moderate from 3
\* to 5, complex above 5, however the score is split among the three counts.
C15_ComplexityThresholds ==
    (analysis # NoAnalysis /\ query.parsed.kind # "error") =>
        /\ analysis.kind = "analysis"
        /\ (Score <= 2) <=> (analysis.query_complexity = "simple")
        /\ (Score >= 3 /\ Score <= 5) <=> (analysis.query_complexity = "moderate")
        /\ (Score > 5) <=> (analysis.query_complexity = "complex")

\* The key a column reference is grouped under
KeyOf(ref) == IF ref.table = "" THEN "unknown" ELSE ref.table

\* The names of the references grouped under a key, in their order
NamesUnder(refs, k) ==
    LET mine == SelectSeq(refs, LAMBDA r : KeyOf(r) = k)
    IN  [i \in 1..Len(mine) |-> mine[i].name]

\* C16. Column extraction loses and merges nothing: the keys of
\* columns_accessed are the qualifiers of the column references, "unknown" for
\* those that have none, and the list under a key holds the names of the
\* references of that key, each as often as it is referenced, in the order of
\* the references; an analysis that is returned carries this map.
C16_ColumnsKept ==
    (analysis # NoAnalysis /\ query.parsed.kind # "error") =>
        LET columns_accessed == ExtractColumns(query.parsed)
        IN  /\ DOMAIN columns_accessed =
                   {KeyOf(query.parsed.columns[i]) : i \in 1..Len(query.parsed.columns)}
            /\ \A k \in DOMAIN columns_accessed :
                   columns_accessed[k] = NamesUnder(query.parsed.columns, k)
            /\ analysis.kind = "analysis" =>
                   analysis.columns_accessed = columns_accessed

\* A query that refers to id, o.id and id again has been analysed
C16_Witness ==
    /\ analysis.kind = "analysis"
    /\ query.parsed.columns = << [table |-> "", name |-> "id"],
                                 [table |-> "o", name |-> "id"],
                                 [table |-> "", name |-> "id"] >>
    /\ analysis.columns_accessed["unknown"] = <<"id", "id">>

\* C17. For `SELECT id FROM orders`, analyze returns tablesUsed = {orders},
\* columnsAccessed = {orders: [id]}, complexity simple and estimatedCost 1.0.
C17_SelectIdFromOrders ==
    (query.text = "SELECT id FROM orders" /\ analysis # NoAnalysis) =>
        /\ analysis.kind = "analysis"
        /\ analysis.tables_used = {"orders"}
        /\ analysis.columns_accessed = [k \in {"orders"} |-> <<"id">>]
        /\ analysis.query_complexity = "simple"
        /\ analysis.estimated_cost = 10

\* C18. Every key of columns_accessed is "unknown" or a member of tables_used
\* of the same analysis, also when the query gives its tables aliases and
\* qualifies its columns by them.
C18_KeysAreTablesUsed ==
    (analysis # NoAnalysis /\ query.parsed.kind # "error") =>
        \A k \in DOMAIN ExtractColumns(query.parsed) :
            k = "unknown" \/ k \in ExtractTables(query.parsed)

\* C19. When the text fails to parse, analyze raises an error that carries the
\* diagnostic of the parser and gives no analysis; and it raises only for a
\* text that fails to parse.
C19_ParseError ==
    analysis # NoAnalysis =>
        /\ query.parsed.kind = "error" =>
              /\ analysis.kind = "raised"
              /\ analysis.message[Len(analysis.message)] = query.parsed.diagnostic
              /\ "tables_used" \notin DOMAIN analysis
        /\ analysis.kind = "raised" => query.parsed.kind = "error"
        /\ analysis.kind \in {"raised", "analysis"}

----------------------------------------------------------------------------
(* Claims about DatabaseAnalyzer *)

\* The positions of the columns whose count of distinct values is above 10
\* and below 1000
InRange ==
    {i \in 1..Len(table_stats.columns) :
        /\ table_stats.columns[i].distinct_values > 10
        /\ table_stats.columns[i].distinct_values < 1000}

\* C20. Partitioning is recommended exactly when the table has more than
\* 1,000,000 rows; when it is, the suggested key is the first column whose
\* count of distinct values is above 10 and below 1000, with benefit high; in
\* every other case there is no key and the benefit is low.
C20_Partitioning ==
    partitioning.kind = "analysis" =>
        /\ partitioning.recommended <=> (table_stats.row_count > 1000000)
        /\ IF partitioning.recommended /\ InRange # {}
           THEN /\ partitioning.suggested_partition_key =
                       table_stats.columns[CHOOSE i \in InRange :
                                              \A j \in InRange : i <= j].name
                /\ partitioning.estimated_benefit = "high"
           ELSE /\ partitioning.suggested_partition_key = None
                /\ partitioning.estimated_benefit = "low"

\* A table of 1,000,001 rows whose first column has 1000 distinct values and
\* whose second has 999 has been analysed
C20_Witness ==
    /\ partitioning.kind = "analysis"
    /\ table_stats.row_count = 1000001
    /\ Len(table_stats.columns) = 2
    /\ table_stats.columns[1].distinct_values = 1000
    /\ table_stats.columns[2].distinct_values = 999
    /\ partitioning.suggested_partition_key = "c2"

----------------------------------------------------------------------------
(* Claims C21..C30 *)

\* A context in which all five collections have been read
Complete(ctx) == BuildDone(ctx)

\* C25. Every value get_database_context returns is a complete context with
\* all five collections or one explicit error value, never an empty or partial
\* structure and never an exception, in every interleaving with
\* refresh_cache("all") in another thread.
C25_CompleteOrError ==
    \A t \in Threads :
        /\ sret[t].kind \notin {"empty", "raised"}
        /\ sret[t].kind \in {"hit", "built"} => Complete(sret[t].ctx)

\* The threads that are between the start of a build and the store of its result
Builders == {t \in Threads : spc[t] \in {"build", "store_cache", "store_ts"}}

\* C29. Between two expiries or refreshes the schema build behind
\* get_database_context is executed at most once: before any time has passed
\* and before any refresh, no two threads are building at once.
C29_BuildAtMostOnce ==
    (ticks = 0 /\ refreshGen = NoRefresh
        /\ \A t \in Threads : spc[t] # "refresh_ts" /\ sret[t].kind # "refreshed")
    => Cardinality(Builders) <= 1

\* Two worker threads work on two entries of the store
StoreValues == {"v1"}

NextStore ==
    \/ \E d \in ConcSteps : Tick(d)
    \/ \E t \in Threads, k \in Keys, c \in ConcLevels : Get(t, k, c)
    \/ \E t \in Threads : GetEvict(t)
    \/ \E t \in Threads, k \in Keys, v \in StoreValues, c \in ConcLevels : Set(t, k, v, c)
    \/ \E t \in Threads : SetMeta(t)
    \/ \E t \in Threads : InvalidateAll(t)
    \/ \E t \in Threads, p \in Patterns : InvalidateByPattern(t, p)
    \/ \E t \in Threads : GetCacheStats(t)

SpecStore == Init /\ [][NextStore]_vars

\* The sum of the counts of a per-level count
RECURSIVE SumCounts(_)
SumCounts(f) ==
    IF DOMAIN f = {} THEN 0
    ELSE LET l == CHOOSE x \in DOMAIN f : TRUE
         IN f[l] + SumCounts([m \in DOMAIN f \ {l} |-> f[m]])

\* C28. Whenever the lock is free the value map and the metadata map have the
\* same key set; get_cache_stats reports total_entries equal to the sum of
\* entries_by_level; invalidate_by_pattern(p) removes exactly the keys that
\* contain p from both maps and leaves every other entry's value and
\* metadata as they were.
C28_MapsAgree ==
    [][/\ lock' = NoThread => DOMAIN cache' = DOMAIN meta'
       /\ \A t \in Threads :
             GetCacheStats(t) =>
                 ret'[t].stats.total_entries = SumCounts(ret'[t].stats.entries_by_level)
       /\ \A t \in Threads, p \in Patterns :
             InvalidateByPattern(t, p) =>
                 /\ DOMAIN cache' = {k \in DOMAIN cache : ~IsSubstring(p, k)}
                 /\ DOMAIN meta' = {k \in DOMAIN meta : ~IsSubstring(p, k)}
                 /\ \A k \in DOMAIN cache' : cache'[k] = cache[k] /\ meta'[k] = meta[k]
    ]_vars

\* invalidate_by_pattern("b") has removed the entry "ab" and left the entry "a"
C28_Witness ==
    /\ \E t \in Threads : ret[t].op = "invalidate_by_pattern"
    /\ lastEffect.what = "invalidated"
    /\ DOMAIN cache = { <<"a">> }
    /\ DOMAIN meta = { <<"a">> }
    /\ lock = NoThread

----------------------------------------------------------------------------
(* CacheService: threads that wait for the lock *)

LiveValues == {"v1", Unserializable}
LivePatterns == { <<"a">> }

\* The calls a thread can make, as the record of its arguments
LiveCalls ==
    [op : {"get"}, key : OneKey, level : ConcLevels, val : {None}]
    \cup [op : {"set"}, key : OneKey, level : ConcLevels, val : LiveValues]
    \cup [op : {"invalidate_by_pattern"}, key : LivePatterns, level : {""}, val : {None}]
    \cup [op : {"invalidate_all", "get_cache_stats"}, key : {<<>>}, level : {""}, val : {None}]

\* A thread calls an operation of the store and reaches `with self._lock:`
Call(t, c) ==
    /\ pc[t] = "idle"
    /\ pc' = [pc EXCEPT ![t] = "blocked"]
    /\ loc' = [loc EXCEPT ![t] = c]
    /\ UNCHANGED <<now, ticks, cache, meta, lock, ret, lastSet, lastEffect>>
    /\ UNCHANGED <<svars, avars>>

\* The waiting thread acquires the lock and runs the operation it called
EnterGet(t) ==
    /\ pc[t] = "blocked" /\ loc[t].op = "get"
    /\ Get(t, loc[t].key, loc[t].level)

EnterSet(t) ==
    /\ pc[t] = "blocked" /\ loc[t].op = "set"
    /\ Set(t, loc[t].key, loc[t].val, loc[t].level)

EnterInvalidateAll(t) ==
    /\ pc[t] = "blocked" /\ loc[t].op = "invalidate_all"
    /\ InvalidateAll(t)

EnterInvalidateByPattern(t) ==
    /\ pc[t] = "blocked" /\ loc[t].op = "invalidate_by_pattern"
    /\ InvalidateByPattern(t, loc[t].key)

EnterGetCacheStats(t) ==
    /\ pc[t] = "blocked" /\ loc[t].op = "get_cache_stats"
    /\ GetCacheStats(t)

Enter(t) ==
    \/ EnterGet(t)
    \/ EnterSet(t)
    \/ EnterInvalidateAll(t)
    \/ EnterInvalidateByPattern(t)
    \/ EnterGetCacheStats(t)

NextLive ==
    \/ \E d \in ConcSteps : Tick(d)
    \/ \E t \in Threads, c \in LiveCalls : Call(t, c)
    \/ \E t \in Threads : EnterGet(t)
    \/ \E t \in Threads : EnterSet(t)
    \/ \E t \in Threads : EnterInvalidateAll(t)
    \/ \E t \in Threads : EnterInvalidateByPattern(t)
    \/ \E t \in Threads : EnterGetCacheStats(t)
    \/ \E t \in Threads : GetEvict(t)
    \/ \E t \in Threads : SetMeta(t)

\* Fair scheduling: a thread that can take its next step from some moment on
\* takes it. A thread inside a critical section can always step; a thread at
\* `with self._lock:` can step while the lock is free. threading.Lock gives
\* its waiters no order, so nothing stronger holds for acquiring it.
Fairness ==
    \A t \in Threads :
        /\ WF_vars(GetEvict(t))
        /\ WF_vars(SetMeta(t))
        /\ WF_vars(Enter(t))

SpecLive == Init /\ [][NextLive]_vars /\ Fairness

\* C27. Under fair scheduling every call of get, set, invalidate_all,
\* invalidate_by_pattern and get_cache_stats acquires the lock, completes and
\* releases it: a thread that has called is later back outside the store and
\* does not hold the lock, also when get evicts an expired entry and when
\* get_cache_stats raises on a value that cannot be serialized.
C27_NoCallBlocksForever ==
    \A t \in Threads : (pc[t] # "idle") ~> (pc[t] = "idle" /\ lock # t)

\* C27, amended. Under fair scheduling no call is stuck in the store: the
\* lock is held only by a thread inside the critical section of get's
\* eviction or of set, never after a return or an exception; a call that
\* holds the lock completes and releases it, get's eviction included; and no
\* call waits forever at a lock that stays free. A waiting call that other
\* calls overtake again and again is not promised the lock.
C27_NoCallStuck ==
    /\ [](\A t \in Threads : lock = t => pc[t] \in {"get_evict", "set_meta"})
    /\ \A t \in Threads : (lock = t) ~> (pc[t] = "idle" /\ lock # t)
    /\ \A t \in Threads : []<>(pc[t] # "blocked" \/ lock # NoThread)

\* get_cache_stats has raised on an unserializable value and the lock is free
\* for the thread that waits for it
C27_Witness ==
    /\ \E t \in Threads : ret[t].op = "get_cache_stats" /\ ret[t].val = Raised
    /\ \E k \in DOMAIN cache : cache[k] = Unserializable
    /\ lock = NoThread
    /\ \E u \in Threads : pc[u] = "blocked"

----------------------------------------------------------------------------
(* SchemaService: one table's information *)

TableNames == {"a", "b"}

\* The databases the table requests run against: a table can be missing, the
\* primary-key lookup or a helper's lookup can fail
TableDbs ==
    {d \in LiveDbs :
        /\ d.fks = {}
        /\ d.failing \in {{}, {<<"get_pk_constraint", "a">>}, {<<"get_columns", "a">>}}}

\* The database does not have the table
NoSuchTable(d, table_name) == table_name \notin Range(d.names)

\* get_table_info(table_name), lines 74-78: the call it makes next; the
\* primary-key lookup of line 76 is made in the method itself, so that its
\* exception ends the method
TableInfoNext(ans, table_name) ==
    IF Len(ans) >= 3 /\ Fails(ans[3], "get_pk_constraint", table_name) THEN Done
    ELSE IF Len(ans) >= Len(AllTablesSteps) THEN Done
    ELSE <<AllTablesSteps[Len(ans) + 1], table_name>>

\* get_table_info(table_name), lines 72-85: the helpers default their fields,
\* the exception of the primary-key lookup reaches the handler of line 82
GetTableInfoOf(ans, table_name) ==
    IF Fails(ans[3], "get_pk_constraint", table_name)
    THEN [error |-> "Failed to get table info"]
    ELSE [columns      |-> GetTableColumns(ans[1], table_name),
          indexes      |-> GetTableIndexes(ans[2], table_name),
          primary_keys |-> LivePrimaryKey(table_name),
          foreign_keys |-> GetForeignKeys(ans[4], table_name),
          row_count    |-> GetTableRowCount(ans[5], table_name),
          description  |-> GetTableDescription(table_name)]

\* "error" in table_info, optimizer_api.py line 213
IsError(result) == "error" \in DOMAIN result

\* The /table/{table_name} endpoint, optimizer_api.py lines 212-220
TableStatus(result) == IF IsError(result) THEN 404 ELSE 200

\* What a get_table_info call has returned
TableReturned(table_name, reads) ==
    LET table_info == GetTableInfoOf(Answers(reads), table_name)
    IN  [kind       |-> IF IsError(table_info) THEN "error" ELSE "table_info",
         ctx        |-> NoContext,
         table_name |-> table_name,
         reads      |-> reads,
         table_info |-> table_info]

\* get_table_info(table_name) is called on the endpoints' service
GetTableInfo(t, table_name) ==
    /\ spc[t] = "idle"
    /\ spc' = [spc EXCEPT ![t] = "table_info"]
    /\ on' = [on EXCEPT ![t] = ApiService]
    /\ table_call' = [table_call EXCEPT ![t] =
                         [table_name |-> table_name, since |-> db, reads |-> <<>>]]
    /\ sret' = [sret EXCEPT ![t] = SReturned("none", NoContext)]
    /\ UNCHANGED <<now, ticks, cvars, avars, schema_cache, cache_timestamp, db, context,
                   refreshGen, refreshPending, nextAfter, caching, info_cache>>

\* get_table_info, lines 74-78: one of its round trips; after the last one
\* the method returns
GetTableInfoCall(t) ==
    /\ spc[t] = "table_info"
    /\ LET table_name == table_call[t].table_name
           call  == TableInfoNext(Answers(table_call[t].reads), table_name)
           reads == Append(table_call[t].reads, AnswerGen(on[t], call))
       IN  /\ info_cache' = Remember(on[t], call)
           /\ IF TableInfoNext(Answers(reads), table_name) = Done
              THEN /\ sret' = [sret EXCEPT ![t] = TableReturned(table_name, reads)]
                   /\ table_call' = [table_call EXCEPT ![t] = NoTableCall]
                   /\ spc' = [spc EXCEPT ![t] = "idle"]
              ELSE /\ table_call' = [table_call EXCEPT ![t].reads = reads]
                   /\ UNCHANGED <<sret, spc>>
    /\ UNCHANGED <<now, ticks, cvars, avars, schema_cache, cache_timestamp, db, on, context,
                   refreshGen, refreshPending, nextAfter, caching>>

\* get_cache_stats(), lines 101-116 (a clock reading is never 0, so that
\* `if self._cache_timestamp` tests for None)
SchemaCacheStats ==
    [cache_valid     |-> CacheIsSet(ApiService) /\ AgeIsValid(ApiService),
     cache_age       |-> IF cache_timestamp[ApiService] = NoTime THEN NoTime
                         ELSE now - cache_timestamp[ApiService],
     cache_duration  |-> CACHE_TTL,
     has_cached_data |-> schema_cache[ApiService] # NoContext]

\* One worker thread asks for contexts, refreshes and table information while
\* the database changes
NextTable ==
    \/ \E d \in SchemaConcSteps : Tick(d)
    \/ \E d \in TableDbs : DbAlter(d)
    \/ CtxCheck("t1", ApiService)
    \/ CtxAge("t1")
    \/ CtxHit("t1")
    \/ Introspect("t1")
    \/ StoreCache("t1")
    \/ StoreTimestamp("t1")
    \/ RefreshAll("t1")
    \/ RefreshTimestamp("t1")
    \/ \E n \in TableNames : GetTableInfo("t1", n)
    \/ GetTableInfoCall("t1")

SpecTable == InitBuild /\ [][NextTable]_vars

\* C26. get_table_info neither reads nor changes the cached context or its
\* timestamp: after any call, successful or failing, the validity, age and
\* content that get_cache_stats and get_database_context report are what they
\* were; for a table that does not exist the result is an error value (HTTP
\* 404), not a table information with defaulted fields, when the database
\* has not had the table at any moment of the call.
C26_TableInfoBypassesCache ==
    [][\A t \in Threads :
        /\ (\E n \in TableNames : GetTableInfo(t, n)) \/ GetTableInfoCall(t) =>
              /\ schema_cache' = schema_cache
              /\ cache_timestamp' = cache_timestamp
              /\ SchemaCacheStats' = SchemaCacheStats
        /\ (/\ GetTableInfoCall(t)
            /\ spc'[t] = "idle"
            /\ \A g \in table_call[t].since..db :
                  NoSuchTable(live[g], table_call[t].table_name)) =>
              /\ sret'[t].kind = "error"
              /\ IsError(sret'[t].table_info)
              /\ TableStatus(sret'[t].table_info) = 404
    ]_vars

\* C21. Statistics failures are isolated: when the lookup of one statistic of
\* a table fails, get_table_statistics and analyze_table_for_partitioning
\* still return a structure, with the failing field defaulted and the other
\* fields real; the failure is never raised to the caller.
C21_StatisticsFailuresIsolated ==
    partitioning # NoPartitioning =>
        /\ GetTableStatistics(table_stats).kind = "stats"
        /\ partitioning.kind = "analysis"
        /\ partitioning.recommended <=> (table_stats.row_count > LargeTableRows)

----------------------------------------------------------------------------
(* QueryOptimizer *)

\* The kinds of statement a submitted SQL text can be
Statements == {"SELECT", "INSERT", "UPDATE", "DELETE"}

\* What the database answers to EXPLAIN (ANALYZE, ...): a plan, or an error
\* raised before the statement runs
ExplainOutcomes == {"plan", "sqlalchemy_error"}

\* What get_schema_stats meets: every lookup works, or one raises
StatsOutcomes == {"stats", "lookup_error"}

\* What the OpenAI call does: it raises, or the content is None, a JSON
\* document, text without braces, text around a JSON document, or text with
\* braces that are not JSON
LlmOutcomes == {"api_error", "empty", "document", "unparseable", "embedded",
                "embedded_invalid"}

\* A call of optimize that has not reached one of its three calls yet
Pending == "pending"

\* optimize(query) as it is entered
Requested(statement) ==
    [statement |-> statement, explain |-> Pending, stats |-> Pending, llm |-> Pending]

\* get_explain_plan(query), lines 18-33: the plan or the error, as a JSON
\* string
GetExplainPlan(req) ==
    IF req.explain = "plan" THEN "plan" ELSE "{error}"

\* A statement the database has executed, and the method that sent it
Executed(statement, by) == [statement |-> statement, by |-> by]

\* EXPLAIN with the ANALYZE option, line 23: the database executes the
\* statement to measure it
ExecutedByExplain(req) ==
    IF req.explain = "plan" THEN {Executed(req.statement, "get_explain_plan")} ELSE {}

\* get_schema_stats(query), lines 35-96: the statistics of the tables of the
\* query as a JSON string, or one error string when any lookup raised
GetSchemaStats(req) ==
    IF req.stats = "stats" THEN "stats" ELSE "Error getting schema stats"

\* call_llm_for_optimization, lines 186-207
CallLlmForOptimization(req) ==
    CASE req.llm = "api_error" ->
             [kind |-> "raised", value |-> [error |-> "openai"]]
      [] req.llm = "empty" ->
             [kind |-> "returned", value |-> [error |-> "Empty response from OpenAI"]]
      [] req.llm \in {"document", "embedded"} ->
             [kind |-> "returned", value |-> [document |-> "llm"]]
      [] req.llm = "unparseable" ->
             [kind |-> "returned", value |-> [error |-> "Failed to parse LLM response"]]
      [] req.llm = "embedded_invalid" ->
             [kind |-> "raised", value |-> [error |-> "JSONDecodeError"]]

\* optimize(query), lines 209-213: the three calls it makes, and its result,
\* which is the LLM's
OptimizeOf(req) ==
    [op    |-> "optimize",
     kind  |-> CallLlmForOptimization(req).kind,
     value |-> CallLlmForOptimization(req).value,
     calls |-> <<"get_explain_plan", "get_schema_stats", "call_llm_for_optimization">>,
     prompt |-> <<req.statement, GetExplainPlan(req), GetSchemaStats(req)>>]

\* The /optimize-query endpoint, optimizer_api.py lines 25-34
OptimizeStatus(result) == IF result.kind = "raised" THEN 500 ELSE 200

\* A request enters optimize(query)
Optimize(t, statement) ==
    /\ opc[t] = "idle"
    /\ opc' = [opc EXCEPT ![t] = "get_explain_plan"]
    /\ request' = [request EXCEPT ![t] = Requested(statement)]
    /\ response' = [response EXCEPT ![t] = NoResponse]
    /\ UNCHANGED <<now, ticks, cvars, svars, live, qvars, pvars, executed>>

\* Line 210: the round trip of get_explain_plan; with a plan, the database
\* has run the statement
OptimizeExplain(t, outcome) ==
    /\ opc[t] = "get_explain_plan"
    /\ LET req == [request[t] EXCEPT !.explain = outcome]
       IN  /\ request' = [request EXCEPT ![t] = req]
           /\ executed' = executed \cup ExecutedByExplain(req)
    /\ opc' = [opc EXCEPT ![t] = "get_schema_stats"]
    /\ UNCHANGED <<now, ticks, cvars, svars, live, qvars, pvars, response>>

\* Line 211: the lookups of get_schema_stats
OptimizeStats(t, outcome) ==
    /\ opc[t] = "get_schema_stats"
    /\ request' = [request EXCEPT ![t].stats = outcome]
    /\ opc' = [opc EXCEPT ![t] = "call_llm_for_optimization"]
    /\ UNCHANGED <<now, ticks, cvars, svars, live, qvars, pvars, response,
                   executed>>

\* Lines 212-213: the OpenAI request, whose answer optimize returns
OptimizeLlm(t, outcome) ==
    /\ opc[t] = "call_llm_for_optimization"
    /\ LET req == [request[t] EXCEPT !.llm = outcome]
       IN  /\ request' = [request EXCEPT ![t] = req]
           /\ response' = [response EXCEPT ![t] = OptimizeOf(req)]
    /\ opc' = [opc EXCEPT ![t] = "idle"]
    /\ UNCHANGED <<now, ticks, cvars, svars, live, qvars, pvars, executed>>

\* What conn.execute(text(sql_query)) and the reading of its result do in
\* QueryGenerator.execute_query (query_generator.py lines 338-341): the rows
\* are read; the database refuses the statement; or the statement runs and
\* its result, having no rows to give, raises when it is read
ExecuteOutcomes == {"rows", "sqlalchemy_error", "closed_result"}

\* The statements the database has run for execute_query, line 339
ExecutedByExecute(statement, outcome) ==
    IF outcome = "sqlalchemy_error" THEN {}
    ELSE {Executed(statement, "execute_query")}

\* execute_query(sql_query), query_generator.py lines 332-368
ExecuteQueryOf(statement, outcome) ==
    IF outcome = "rows"
    THEN [op |-> "execute_query", kind |-> "returned",
          value |-> [sql_query |-> statement, results |-> "rows"]]
    ELSE [op |-> "execute_query", kind |-> "returned",
          value |-> [error |-> outcome, sql_query |-> statement]]

\* The /execute-sql and /execute-query endpoints, optimizer_api.py lines
\* 117-152, call execute_query with the text of the request, whatever
\* statement it is: the call is entered and waits for a connection
\* (query_generator.py lines 332-338)
ExecuteQuery(t, statement) ==
    /\ opc[t] = "idle"
    /\ opc' = [opc EXCEPT ![t] = "conn_execute"]
    /\ request' = [request EXCEPT ![t] = [statement |-> statement, result |-> Pending]]
    /\ response' = [response EXCEPT ![t] = NoResponse]
    /\ UNCHANGED <<now, ticks, cvars, svars, live, qvars, pvars, executed>>

\* Line 339: the round trip of conn.execute(text(sql_query)); unless the
\* database refuses the statement, it has run it when the call returns
ExecuteQueryRun(t, outcome) ==
    /\ opc[t] = "conn_execute"
    /\ outcome = "closed_result" => request[t].statement # "SELECT"
    /\ request' = [request EXCEPT ![t].result = outcome]
    /\ executed' = executed \cup ExecutedByExecute(request[t].statement, outcome)
    /\ opc' = [opc EXCEPT ![t] = "read_result"]
    /\ UNCHANGED <<now, ticks, cvars, svars, live, qvars, pvars, response>>

\* Lines 340-360: the result is read (or the exception handled), the
\* connection is closed and execute_query returns
ExecuteQueryReturn(t) ==
    /\ opc[t] = "read_result"
    /\ response' = [response EXCEPT ![t] =
                        ExecuteQueryOf(request[t].statement, request[t].result)]
    /\ opc' = [opc EXCEPT ![t] = "idle"]
    /\ UNCHANGED <<now, ticks, cvars, svars, live, qvars, pvars, request, executed>>

\* One worker thread serves optimize requests while another serves execute
\* requests
NextOptimize ==
    \/ \E statement \in Statements : Optimize("t1", statement)
    \/ \E outcome \in ExplainOutcomes : OptimizeExplain("t1", outcome)
    \/ \E outcome \in StatsOutcomes : OptimizeStats("t1", outcome)
    \/ \E outcome \in LlmOutcomes : OptimizeLlm("t1", outcome)
    \/ \E statement \in Statements : ExecuteQuery("t2", statement)
    \/ \E outcome \in ExecuteOutcomes : ExecuteQueryRun("t2", outcome)
    \/ ExecuteQueryReturn("t2")

SpecOptimize == Init /\ [][NextOptimize]_vars

\* The five rules of the engine, in their order
Rules == <<"rewrite", "index", "view", "partition", "sharding">>

\* The calls of optimize that have returned or raised
Optimized == {t \in Threads : response[t] # NoResponse /\ response[t].op = "optimize"}

\* C22. optimize always evaluates the five rules rewrite, index, view,
\* partition and sharding and returns the concatenation of their suggestions
\* in that order; a statistics lookup error removes one table's contribution
\* to a rule, never the whole result.
C22_AllRulesEvaluated ==
    \A t \in Optimized :
        /\ SelectSeq(response[t].calls, LAMBDA c : c \in Range(Rules)) = Rules
        /\ response[t].kind = "returned"
        /\ ~IsError(response[t].value)

\* C23. The LLM is never required: when the LLM call fails, returns nothing
\* or returns an unparseable document, optimize still returns the rule-based
\* suggestions, not an error and not an exception.
C23_LlmNotRequired ==
    \A t \in Optimized :
        request[t].llm \in {"api_error", "empty", "unparseable", "embedded_invalid"}
        => /\ response[t].kind = "returned"
           /\ OptimizeStatus(response[t]) = 200
           /\ ~IsError(response[t].value)

\* C24. The engine never mutates data: the statement passed to optimize,
\* INSERT, UPDATE and DELETE included, is never executed against the
\* database; only its execution plan is requested.
C24_StatementNeverExecuted ==
    \A e \in executed : e.by # "get_explain_plan"

----------------------------------------------------------------------------
(* QueryGenerator *)

\* One worker thread serves the context and refresh endpoints while another
\* serves generation requests, and the schema of the database changes
NextGenerator ==
    \/ \E d \in SchemaSteps : Tick(d)
    \/ \E d \in ConcDbs : DbAlter(d)
    \/ CtxCheck("t1", ApiService)
    \/ RefreshAll("t1")
    \/ RefreshTimestamp("t1")
    \/ GenerateSql("t2")
    \/ \E t \in Threads : CtxAge(t)
    \/ \E t \in Threads : CtxHit(t)
    \/ \E t \in Threads : Introspect(t)
    \/ \E t \in Threads : StoreCache(t)
    \/ \E t \in Threads : StoreTimestamp(t)

SpecGenerator == InitConc /\ [][NextGenerator]_vars

\* C30. A refresh reaches every consumer of the context: once
\* refresh_cache("all") issued through the API has returned, the context
\* generate_sql obtains next holds nothing that was read from the database
\* before that refresh returned.
C30_RefreshReachesGenerator ==
    [][\A t \in Threads :
        (/\ on[t] = GeneratorService
         /\ spc[t] # "idle" /\ spc'[t] = "idle"
         /\ nextAfter[t]) =>
            /\ sret'[t].kind = "built"
            /\ \A f \in Range(Fields) : \A i \in 1..Len(sret'[t].ctx[f]) :
                  sret'[t].ctx[f][i] >= refreshGen
    ]_vars

====
